---- MODULE Spec2Model ----
(***************************************************************************)
(* Cart store of the food-order front end (CartContext: src/unnamed/       *)
(* part_000): the in-memory cart lines and promo, the versioned            *)
(* localStorage persistence (v2 envelope plus the two legacy keys) and the *)
(* hydration at mount; and the order of AppContent                         *)
(* (src/frontend_app/src/App.js): the checkout (placeOrder), the order     *)
(* kept under the last-order key, and the tracking interval that moves it  *)
(* from Confirmed to Delivered.                                            *)
(*                                                                         *)
(* Values.  A JavaScript value held in memory and a JSON value held in a   *)
(* storage text are different things, and JSON.stringify / JSON.parse are  *)
(* modelled as the conversions between them:                               *)
(*   - a JS scalar is [t, n, s] with t in undefined / null / number /      *)
(*     Infinity / -Infinity / NaN / string (the last three numbers are     *)
(*     the non-finite ones, whose typeof is "number");                     *)
(*   - a JSON scalar is [t, n, s] with t in absent / null / number / huge  *)
(*     / string (absent: the property is not in the text; huge: a literal  *)
(*     such as 1e999, which JSON.parse reads as Infinity).                 *)
(* Strings are sequences of one-character strings, so that trim() and      *)
(* toUpperCase() are computed.  Numbers are integers: quantities in units, *)
(* prices in cents, discount rates in 1/10000 (0.5 is 5000).               *)
(***************************************************************************)
EXTENDS Integers, Sequences, FiniteSets, TLC

VARIABLES
    storage,        \* window.localStorage: key -> text (or absent)
    items,          \* CartProvider state: the cart lines
    promo,          \* CartProvider state: the promo
    lastPersisted,  \* lastPersistedRef.current
    now,            \* Date.now()
    rejectsLeft,    \* how many more storage calls localStorage will reject
    op,             \* the last operation, its argument and what its save did
    orderStorage,   \* the text under LAST_ORDER_STORAGE_KEY
    order,          \* AppContent state: the active order
    timer,          \* an interval is held by progressTimerRef.current
    intervals,      \* the intervals set and not cleared, each with the order it
                    \* was set for
    orderWritten,   \* the last run of the order effects or of the interval
                    \* callback wrote the last-order key
    placing,        \* the placeOrder call awaiting fetch, with its payload
    apiBase         \* REACT_APP_API_BASE, normalized

orderVars == <<orderStorage, order, timer, intervals, orderWritten, placing, apiBase>>

vars == <<storage, items, promo, lastPersisted, now, rejectsLeft, op,
          orderStorage, order, timer, intervals, orderWritten, placing, apiBase>>

-----------------------------------------------------------------------------
(* Bounds of the model *)

MaxQty == 2
MaxNow == 1
MaxFaults == 1
\* the latest instant at which a checkout is started
MaxPlacedAt == 0

-----------------------------------------------------------------------------
(* Program constants *)

CART_STORAGE_KEY_V1 == "food_order_cart_v1"
CART_STORAGE_KEY_V2 == "food_order_cart_v2"
CART_STORAGE_VERSION == 2
PROMO_STORAGE_KEY_V1 == "food_order_promo_v1"

\* Math.min(0.5, ...) of sanitizePromo, in 1/10000
MaxDiscountRate == 5000
\* the promo catalog of computePromoFromCode, in 1/10000
Ocean10Rate == 1000
ShipFreeRate == 600

Keys == {CART_STORAGE_KEY_V2, CART_STORAGE_KEY_V1, PROMO_STORAGE_KEY_V1}

-----------------------------------------------------------------------------
(* JavaScript scalars *)

JsUndefined == [t |-> "undefined", n |-> 0, s |-> <<>>]
JsNull == [t |-> "null", n |-> 0, s |-> <<>>]
JsInfinity == [t |-> "Infinity", n |-> 0, s |-> <<>>]
JsNegInfinity == [t |-> "-Infinity", n |-> 0, s |-> <<>>]
JsNaN == [t |-> "NaN", n |-> 0, s |-> <<>>]
JsNum(k) == [t |-> "number", n |-> k, s |-> <<>>]
JsStr(x) == [t |-> "string", n |-> 0, s |-> x]

TypeOf(v) ==
    CASE v.t = "undefined" -> "undefined"
      [] v.t = "null" -> "object"
      [] v.t = "number" -> "number"
      [] v.t = "Infinity" -> "number"
      [] v.t = "-Infinity" -> "number"
      [] v.t = "NaN" -> "number"
      [] v.t = "string" -> "string"

\* the operand of an arithmetic operator as a number: undefined is NaN, null
\* is 0 (the strings of the model are not numerals: NaN)
ToNumber(v) ==
    CASE v.t = "undefined" -> JsNaN
      [] v.t = "null" -> JsNum(0)
      [] v.t = "string" -> JsNaN
      [] OTHER -> v

IsNaN(v) == ToNumber(v).t = "NaN"

\* -1, 0, 1: the sign of a number that is not NaN
Signum(v) ==
    CASE v.t = "Infinity" -> 1
      [] v.t = "-Infinity" -> -1
      [] OTHER -> IF v.n > 0 THEN 1 ELSE IF v.n < 0 THEN -1 ELSE 0

\* a + b on operands that are not strings
JsPlus(a, b) ==
    LET x == ToNumber(a)
        y == ToNumber(b)
    IN  CASE IsNaN(x) \/ IsNaN(y) -> JsNaN
          [] x.t = "Infinity" -> IF y.t = "-Infinity" THEN JsNaN ELSE JsInfinity
          [] x.t = "-Infinity" -> IF y.t = "Infinity" THEN JsNaN ELSE JsNegInfinity
          [] y.t \in {"Infinity", "-Infinity"} -> y
          [] OTHER -> JsNum(x.n + y.n)

\* -a
JsNegate(a) ==
    LET x == ToNumber(a)
    IN  CASE x.t = "NaN" -> JsNaN
          [] x.t = "Infinity" -> JsNegInfinity
          [] x.t = "-Infinity" -> JsInfinity
          [] OTHER -> JsNum(0 - x.n)

\* a - b
JsMinus(a, b) == JsPlus(a, JsNegate(b))

\* a < b
JsLess(a, b) ==
    LET x == ToNumber(a)
        y == ToNumber(b)
    IN  CASE IsNaN(x) \/ IsNaN(y) -> FALSE
          [] x.t = "Infinity" -> FALSE
          [] y.t = "-Infinity" -> FALSE
          [] x.t = "-Infinity" -> TRUE
          [] y.t = "Infinity" -> TRUE
          [] OTHER -> x.n < y.n

\* a <= b
JsLeq(a, b) == ~IsNaN(a) /\ ~IsNaN(b) /\ ~JsLess(b, a)

MathMin(a, b) == IF IsNaN(a) \/ IsNaN(b) THEN JsNaN ELSE IF JsLeq(a, b) THEN a ELSE b
MathMax(a, b) == IF IsNaN(a) \/ IsNaN(b) THEN JsNaN ELSE IF JsLeq(a, b) THEN b ELSE a

-----------------------------------------------------------------------------
(* JSON scalars, and JSON.parse / JSON.stringify on scalars *)

JAbsent == [t |-> "absent", n |-> 0, s |-> <<>>]
JNull == [t |-> "null", n |-> 0, s |-> <<>>]
JHuge == [t |-> "huge", n |-> 0, s |-> <<>>]
JNum(k) == [t |-> "number", n |-> k, s |-> <<>>]
JStr(x) == [t |-> "string", n |-> 0, s |-> x]

\* the value JSON.parse gives a property
ParseScalar(j) ==
    CASE j.t = "absent" -> JsUndefined
      [] j.t = "null" -> JsNull
      [] j.t = "number" -> JsNum(j.n)
      [] j.t = "huge" -> JsInfinity
      [] j.t = "string" -> JsStr(j.s)

\* what JSON.stringify writes for a property: an undefined one is left out,
\* a non-finite number is written null
StringifyScalar(v) ==
    CASE v.t = "undefined" -> JAbsent
      [] v.t = "null" -> JNull
      [] v.t = "number" -> JNum(v.n)
      [] v.t = "Infinity" -> JNull
      [] v.t = "-Infinity" -> JNull
      [] v.t = "NaN" -> JNull
      [] v.t = "string" -> JStr(v.s)

-----------------------------------------------------------------------------
(* JSON texts.  A storage text is absent (getItem gives null), the empty   *)
(* string, text that does not parse ("garbage"), or a JSON value: null, a  *)
(* number, an array of elements, or an object, of which the properties     *)
(* the program reads are kept (version, items, promo, savedAt of an        *)
(* envelope; code, discountRate of a promo).                               *)

\* one element of a JSON array
ElemJ(k, itemId, name, unitPrice, quantity, notes) ==
    [k |-> k, itemId |-> itemId, name |-> name, unitPrice |-> unitPrice,
     quantity |-> quantity, notes |-> notes]

\* the JSON value of an "items" property
ItemsJ(k, elems) == [k |-> k, elems |-> elems]

\* the JSON value of a "promo" property
PromoJ(k, code, rate) == [k |-> k, code |-> code, discountRate |-> rate]

Text(k, version, its, pr, savedAt, elems, code, rate) ==
    [k |-> k, version |-> version, items |-> its, promo |-> pr, savedAt |-> savedAt,
     elems |-> elems, code |-> code, discountRate |-> rate]

PlainText(k) ==
    Text(k, JAbsent, ItemsJ("absent", <<>>), PromoJ("absent", JAbsent, JAbsent),
         JAbsent, <<>>, JAbsent, JAbsent)

AbsentText == PlainText("absent")
EmptyText == PlainText("empty")
GarbageText == PlainText("garbage")

\* the text of an array
ArrayText(elems) ==
    Text("array", JAbsent, ItemsJ("absent", <<>>), PromoJ("absent", JAbsent, JAbsent),
         JAbsent, elems, JAbsent, JAbsent)

\* the text of an object with properties code and discountRate
PromoText(code, rate) ==
    Text("object", JAbsent, ItemsJ("absent", <<>>), PromoJ("absent", JAbsent, JAbsent),
         JAbsent, <<>>, code, rate)

\* the text of an object with properties version, items, promo, savedAt
EnvelopeText(version, its, pr, savedAt) ==
    Text("object", version, its, pr, savedAt, <<>>, JAbsent, JAbsent)

-----------------------------------------------------------------------------
(* JSON.parse: the JavaScript value of a text *)

ParseElem(e) ==
    [k |-> e.k, itemId |-> ParseScalar(e.itemId), name |-> ParseScalar(e.name),
     unitPrice |-> ParseScalar(e.unitPrice), quantity |-> ParseScalar(e.quantity),
     notes |-> ParseScalar(e.notes)]

ParseElems(elems) == [i \in DOMAIN elems |-> ParseElem(elems[i])]

ParseItems(j) ==
    [k |-> IF j.k = "absent" THEN "undefined" ELSE j.k, elems |-> ParseElems(j.elems)]

ParsePromo(j) ==
    [k |-> IF j.k = "absent" THEN "undefined" ELSE j.k,
     code |-> ParseScalar(j.code), discountRate |-> ParseScalar(j.discountRate)]

\* JSON.parse of a text that parses
JSONparse(text) ==
    [k |-> text.k, version |-> ParseScalar(text.version), items |-> ParseItems(text.items),
     promo |-> ParsePromo(text.promo), savedAt |-> ParseScalar(text.savedAt),
     elems |-> ParseElems(text.elems), code |-> ParseScalar(text.code),
     discountRate |-> ParseScalar(text.discountRate)]

\* JSON.parse throws a SyntaxError
ParseThrows(text) == text.k \in {"empty", "garbage"}

JsValue(k, elems, code, rate) ==
    [k |-> k, version |-> JsUndefined, items |-> [k |-> "undefined", elems |-> <<>>],
     promo |-> [k |-> "undefined", code |-> JsUndefined, discountRate |-> JsUndefined],
     savedAt |-> JsUndefined, elems |-> elems, code |-> code, discountRate |-> rate]

\* the fallbacks handed to safeParseJson: null, [], {code: "", discountRate: 0}
NullValue == JsValue("null", <<>>, JsUndefined, JsUndefined)
EmptyArrayValue == JsValue("array", <<>>, JsUndefined, JsUndefined)
NoPromoValue == JsValue("object", <<>>, JsStr(<<>>), JsNum(0))

safeParseJson(maybeJson, fallback) ==
    IF ParseThrows(maybeJson)
    THEN fallback
    ELSE LET parsed == JSONparse(maybeJson)
         IN  IF parsed.k \in {"null", "undefined"} THEN fallback ELSE parsed

\* a value used as a condition: null and "" are falsy
Truthy(text) == text.k \notin {"absent", "empty"}

isPlainObject(value) == value.k = "object"

\* a parsed value seen as an items array, and as a promo object
AsItems(value) == [k |-> value.k, elems |-> value.elems]
AsPromo(value) == [k |-> value.k, code |-> value.code, discountRate |-> value.discountRate]

-----------------------------------------------------------------------------
(* Sanitizers *)

Line(itemId, name, unitPrice, quantity, notes) ==
    [itemId |-> itemId, name |-> name, unitPrice |-> unitPrice,
     quantity |-> quantity, notes |-> notes]

KeepsElem(it) == isPlainObject(it) /\ TypeOf(it.itemId) = "string"

SanitizeElem(it) ==
    Line(it.itemId,
         IF TypeOf(it.name) = "string" THEN it.name ELSE JsStr(<<>>),
         IF TypeOf(it.unitPrice) = "number" THEN it.unitPrice ELSE JsNum(0),
         IF TypeOf(it.quantity) = "number" THEN it.quantity ELSE JsNum(1),
         IF TypeOf(it.notes) = "string" THEN it.notes ELSE JsStr(<<>>))

sanitizeItems(its) ==
    IF its.k # "array"
    THEN <<>>
    ELSE LET kept == SelectSeq(its.elems, KeepsElem)
         IN  [i \in DOMAIN kept |-> SanitizeElem(kept[i])]

NoPromo == [code |-> JsStr(<<>>), discountRate |-> JsNum(0)]

\* the safety clamp left out
sanitizePromoUnclamped(pr) ==
    IF ~isPlainObject(pr)
    THEN NoPromo
    ELSE [code |-> IF TypeOf(pr.code) = "string" THEN pr.code ELSE JsStr(<<>>),
          discountRate |->
              IF TypeOf(pr.discountRate) = "number" THEN pr.discountRate ELSE JsNum(0)]

sanitizePromo(pr) ==
    IF ~isPlainObject(pr)
    THEN NoPromo
    ELSE LET code == IF TypeOf(pr.code) = "string" THEN pr.code ELSE JsStr(<<>>)
             discountRate ==
                 IF TypeOf(pr.discountRate) = "number" THEN pr.discountRate ELSE JsNum(0)
         IN  [code |-> code,
              discountRate |-> MathMax(JsNum(0), MathMin(JsNum(MaxDiscountRate), discountRate))]

-----------------------------------------------------------------------------
(* Storage access.  rejected is the set of keys on which localStorage      *)
(* throws in this call.                                                    *)

\* window.localStorage.getItem(key): the text, or an exception
getItem(store, key, rejected) ==
    IF key \in rejected
    THEN [threw |-> TRUE, value |-> AbsentText]
    ELSE [threw |-> FALSE, value |-> store[key]]

\* window.localStorage.setItem(key, value): the store written, or an exception
\* that leaves it as it was
setItem(store, key, value, rejected) ==
    IF key \in rejected
    THEN [threw |-> TRUE, store |-> store]
    ELSE [threw |-> FALSE, store |-> [store EXCEPT ![key] = value]]

\* try { return getItem(key) } catch { return null }
safeStorageGet(store, key, rejected) ==
    LET r == getItem(store, key, rejected)
    IN  IF r.threw THEN AbsentText ELSE r.value

\* try { setItem(key, value); return true } catch { return false }
safeStorageSet(store, key, value, rejected) ==
    LET r == setItem(store, key, value, rejected)
    IN  IF r.threw
        THEN [ok |-> FALSE, threw |-> FALSE, store |-> r.store]
        ELSE [ok |-> TRUE, threw |-> FALSE, store |-> r.store]

\* the version of the envelope not looked at
TakesEnvelopeAnyVersion(store, rejected) ==
    LET savedV2 == safeStorageGet(store, CART_STORAGE_KEY_V2, rejected)
    IN  /\ Truthy(savedV2)
        /\ isPlainObject(safeParseJson(savedV2, NullValue))

\* loadCartState takes the envelope: the v2 text is there, parses to a plain
\* object and carries the current version
TakesEnvelope(store, rejected) ==
    LET savedV2 == safeStorageGet(store, CART_STORAGE_KEY_V2, rejected)
    IN  /\ Truthy(savedV2)
        /\ LET parsed == safeParseJson(savedV2, NullValue)
           IN  isPlainObject(parsed) /\ parsed.version = JsNum(CART_STORAGE_VERSION)

\* the legacy promo taken as stored, not sanitized
loadCartStateRawLegacyPromo(store, rejected) ==
    LET savedV2 == safeStorageGet(store, CART_STORAGE_KEY_V2, rejected)
        parsed == safeParseJson(savedV2, NullValue)
        savedItemsV1 == safeStorageGet(store, CART_STORAGE_KEY_V1, rejected)
        savedPromoV1 == safeStorageGet(store, PROMO_STORAGE_KEY_V1, rejected)
        legacyPromo == safeParseJson(savedPromoV1, NoPromoValue)
    IN  IF TakesEnvelope(store, rejected)
        THEN [items |-> sanitizeItems(parsed.items), promo |-> sanitizePromo(parsed.promo)]
        ELSE [items |-> IF Truthy(savedItemsV1)
                        THEN sanitizeItems(AsItems(safeParseJson(savedItemsV1, EmptyArrayValue)))
                        ELSE <<>>,
              promo |-> IF Truthy(savedPromoV1)
                        THEN [code |-> legacyPromo.code,
                              discountRate |-> legacyPromo.discountRate]
                        ELSE NoPromo]

loadCartState(store, rejected) ==
    LET savedV2 == safeStorageGet(store, CART_STORAGE_KEY_V2, rejected)
        parsed == safeParseJson(savedV2, NullValue)
        savedItemsV1 == safeStorageGet(store, CART_STORAGE_KEY_V1, rejected)
        savedPromoV1 == safeStorageGet(store, PROMO_STORAGE_KEY_V1, rejected)
    IN  IF TakesEnvelope(store, rejected)
        THEN [items |-> sanitizeItems(parsed.items), promo |-> sanitizePromo(parsed.promo)]
        ELSE [items |-> IF Truthy(savedItemsV1)
                        THEN sanitizeItems(AsItems(safeParseJson(savedItemsV1, EmptyArrayValue)))
                        ELSE <<>>,
              promo |-> IF Truthy(savedPromoV1)
                        THEN sanitizePromo(AsPromo(safeParseJson(savedPromoV1, NoPromoValue)))
                        ELSE NoPromo]

\* where loadCartState takes the state from: the envelope, the legacy keys
\* when it finds nothing under the v2 key, or the legacy keys as a fallback
\* for a v2 text it cannot use
LoadedFrom(store, rejected) ==
    IF TakesEnvelope(store, rejected) THEN "envelope"
    ELSE IF safeStorageGet(store, CART_STORAGE_KEY_V2, rejected) = AbsentText THEN "legacy"
    ELSE "fallback"

\* the keys loadCartState reads
KeysRead(store, rejected) ==
    IF TakesEnvelope(store, rejected) THEN {CART_STORAGE_KEY_V2} ELSE Keys

-----------------------------------------------------------------------------
(* JSON.stringify of the cart state *)

StringifyLine(l) ==
    ElemJ("object", StringifyScalar(l.itemId), StringifyScalar(l.name),
          StringifyScalar(l.unitPrice), StringifyScalar(l.quantity), StringifyScalar(l.notes))

StringifyLines(its) == [i \in DOMAIN its |-> StringifyLine(its[i])]

\* JSON.stringify({version, items, promo, savedAt})
SerializePayload(its, pr, savedAt) ==
    EnvelopeText(JNum(CART_STORAGE_VERSION),
                 ItemsJ("array", StringifyLines(its)),
                 PromoJ("object", StringifyScalar(pr.code), StringifyScalar(pr.discountRate)),
                 JNum(savedAt))

\* JSON.stringify(items), JSON.stringify(promo)
SerializeItems(its) == ArrayText(StringifyLines(its))
SerializePromo(pr) == PromoText(StringifyScalar(pr.code), StringifyScalar(pr.discountRate))

-----------------------------------------------------------------------------
(* The persistence effect of CartProvider, run with the items and promo of *)
(* the render at time t; rejected: the keys on which setItem throws.       *)
(* saved: "skipped" (payload equal to the last persisted one), "written"   *)
(* (the envelope write succeeded), "failed" (it was rejected).             *)

\* the effect with [items] as its only dependency: a render that changed the
\* promo alone does not run it
PersistEffectOnItemsOnly(store, lastP, its, pr, t, rejected) ==
    LET serialized == SerializePayload(its, pr, t)
        okV2 == safeStorageSet(store, CART_STORAGE_KEY_V2, serialized, rejected)
        setV1 == safeStorageSet(okV2.store, CART_STORAGE_KEY_V1, SerializeItems(its), rejected)
        setPromo == safeStorageSet(setV1.store, PROMO_STORAGE_KEY_V1, SerializePromo(pr), rejected)
    IN  IF serialized = lastP \/ (lastP.k = "object" /\ lastP.items = serialized.items)
        THEN [store |-> store, lastPersisted |-> lastP, saved |-> "skipped",
              attempted |-> {}, threw |-> FALSE]
        ELSE IF okV2.ok
        THEN [store |-> setPromo.store, lastPersisted |-> serialized, saved |-> "written",
              attempted |-> Keys, threw |-> okV2.threw \/ setV1.threw \/ setPromo.threw]
        ELSE [store |-> okV2.store, lastPersisted |-> lastP, saved |-> "failed",
              attempted |-> {CART_STORAGE_KEY_V2}, threw |-> okV2.threw]

\* the legacy keys written whether or not the envelope write succeeded
PersistEffectUnguarded(store, lastP, its, pr, t, rejected) ==
    LET serialized == SerializePayload(its, pr, t)
        okV2 == safeStorageSet(store, CART_STORAGE_KEY_V2, serialized, rejected)
        setV1 == safeStorageSet(okV2.store, CART_STORAGE_KEY_V1, SerializeItems(its), rejected)
        setPromo == safeStorageSet(setV1.store, PROMO_STORAGE_KEY_V1, SerializePromo(pr), rejected)
    IN  IF serialized = lastP
        THEN [store |-> store, lastPersisted |-> lastP, saved |-> "skipped",
              attempted |-> {}, threw |-> FALSE]
        ELSE IF okV2.ok
        THEN [store |-> setPromo.store, lastPersisted |-> serialized, saved |-> "written",
              attempted |-> Keys, threw |-> okV2.threw \/ setV1.threw \/ setPromo.threw]
        ELSE [store |-> setPromo.store, lastPersisted |-> lastP, saved |-> "failed",
              attempted |-> Keys, threw |-> okV2.threw \/ setV1.threw \/ setPromo.threw]

\* the guard on the last persisted payload left out: every save writes
PersistEffectNeverSkips(store, lastP, its, pr, t, rejected) ==
    LET serialized == SerializePayload(its, pr, t)
        okV2 == safeStorageSet(store, CART_STORAGE_KEY_V2, serialized, rejected)
        setV1 == safeStorageSet(okV2.store, CART_STORAGE_KEY_V1, SerializeItems(its), rejected)
        setPromo == safeStorageSet(setV1.store, PROMO_STORAGE_KEY_V1, SerializePromo(pr), rejected)
    IN  IF okV2.ok
        THEN [store |-> setPromo.store, lastPersisted |-> serialized, saved |-> "written",
              attempted |-> Keys, threw |-> okV2.threw \/ setV1.threw \/ setPromo.threw]
        ELSE [store |-> okV2.store, lastPersisted |-> lastP, saved |-> "failed",
              attempted |-> {CART_STORAGE_KEY_V2}, threw |-> okV2.threw]

PersistEffect(store, lastP, its, pr, t, rejected) ==
    LET serialized == SerializePayload(its, pr, t)
        okV2 == safeStorageSet(store, CART_STORAGE_KEY_V2, serialized, rejected)
        setV1 == safeStorageSet(okV2.store, CART_STORAGE_KEY_V1, SerializeItems(its), rejected)
        setPromo == safeStorageSet(setV1.store, PROMO_STORAGE_KEY_V1, SerializePromo(pr), rejected)
    IN  IF serialized = lastP
        THEN [store |-> store, lastPersisted |-> lastP, saved |-> "skipped",
              attempted |-> {}, threw |-> FALSE]
        ELSE IF okV2.ok
        THEN [store |-> setPromo.store, lastPersisted |-> serialized, saved |-> "written",
              attempted |-> Keys, threw |-> okV2.threw \/ setV1.threw \/ setPromo.threw]
        ELSE [store |-> okV2.store, lastPersisted |-> lastP, saved |-> "failed",
              attempted |-> {CART_STORAGE_KEY_V2}, threw |-> okV2.threw]

\* no render, no effect: the state setter returned the state it was given
NoEffect(store, lastP) ==
    [store |-> store, lastPersisted |-> lastP, saved |-> "none", attempted |-> {},
     threw |-> FALSE]

-----------------------------------------------------------------------------
(* The state updaters of the cart operations *)

HasLine(prev, itemId) == \E i \in DOMAIN prev : prev[i].itemId = itemId

PlusOne(p) == [p EXCEPT !.quantity = JsPlus(p.quantity, JsNum(1))]
MinusOne(p) == [p EXCEPT !.quantity = JsPlus(p.quantity, JsNum(-1))]

\* the first line with that id: prev.find
FindLine(prev, itemId) ==
    prev[CHOOSE i \in DOMAIN prev :
            /\ prev[i].itemId = itemId
            /\ \A j \in DOMAIN prev : prev[j].itemId = itemId => i <= j]

\* addItem accepts the candidate: it is an object with a string id
AcceptsItem(menuItem) == menuItem.k = "object" /\ TypeOf(menuItem.id) = "string"

addItemUpdater(prev, menuItem) ==
    IF HasLine(prev, menuItem.id)
    THEN [i \in DOMAIN prev |->
            IF prev[i].itemId = menuItem.id THEN PlusOne(prev[i]) ELSE prev[i]]
    ELSE Append(prev, Line(menuItem.id, menuItem.name, menuItem.price, JsNum(1), JsStr(<<>>)))

incrementItemUpdater(prev, itemId) ==
    [i \in DOMAIN prev |-> IF prev[i].itemId = itemId THEN PlusOne(prev[i]) ELSE prev[i]]

OtherId(prev, itemId) == SelectSeq(prev, LAMBDA p : p.itemId # itemId)

\* a slip in the comparison: a line is removed only below quantity 1
decrementItemKeepsZero(prev, itemId) ==
    IF ~HasLine(prev, itemId)
    THEN prev
    ELSE IF JsLeq(FindLine(prev, itemId).quantity, JsNum(0))
    THEN OtherId(prev, itemId)
    ELSE [i \in DOMAIN prev |-> IF prev[i].itemId = itemId THEN MinusOne(prev[i]) ELSE prev[i]]

decrementItemUpdater(prev, itemId) ==
    IF ~HasLine(prev, itemId)
    THEN prev
    ELSE IF JsLeq(FindLine(prev, itemId).quantity, JsNum(1))
    THEN OtherId(prev, itemId)
    ELSE [i \in DOMAIN prev |-> IF prev[i].itemId = itemId THEN MinusOne(prev[i]) ELSE prev[i]]

removeItemUpdater(prev, itemId) == OtherId(prev, itemId)

\* items.reduce((sum, it) => sum + it.quantity, 0)
RECURSIVE SumQuantity(_, _)
SumQuantity(its, sum) ==
    IF its = <<>> THEN sum ELSE SumQuantity(Tail(its), JsPlus(sum, Head(its).quantity))

itemsCount == SumQuantity(items, JsNum(0))

-----------------------------------------------------------------------------
(* Pricing: the derived values of CartProvider.  Amounts of money are in   *)
(* millionths of a dollar (a unitPrice held in cents is CentMicros         *)
(* millionths each), so that the products by 0.08, 0.0825 and the discount *)
(* rate are exact on the prices of the model.                              *)

CentMicros == 10000

\* 3.5, 1.25 and 2.99 dollars
ServiceFeeMax == 3500000
ServiceFeeMin == 1250000
DeliveryFee == 2990000
\* 0.08 as ServiceFeePercent / 100
ServiceFeePercent == 8
\* 0.0825 as TaxRateNum / TaxRateDen
TaxRateNum == 33
TaxRateDen == 400
\* a discount rate held in 1/10000
RateDen == 10000

\* a * b
JsTimes(a, b) ==
    LET x == ToNumber(a)
        y == ToNumber(b)
    IN  CASE IsNaN(x) \/ IsNaN(y) -> JsNaN
          [] x.t = "number" /\ y.t = "number" -> JsNum(x.n * y.n)
          [] Signum(x) * Signum(y) = 0 -> JsNaN
          [] Signum(x) * Signum(y) > 0 -> JsInfinity
          [] OTHER -> JsNegInfinity

\* a * (num / den) for a factor num / den >= 0 (rounded down where the
\* product is not a whole number of millionths)
TimesRatio(a, num, den) ==
    LET x == ToNumber(a)
    IN  CASE IsNaN(x) -> JsNaN
          [] x.t = "number" -> JsNum((x.n \div den) * num + ((x.n % den) * num) \div den)
          [] num = 0 -> JsNaN
          [] OTHER -> x

\* a * rate, the rate a number held in 1/10000
TimesRate(a, rate) ==
    LET r == ToNumber(rate)
    IN  CASE IsNaN(r) -> JsNaN
          [] r.t = "number" -> TimesRatio(a, r.n, RateDen)
          [] OTHER -> JsTimes(a, r)

\* it.quantity * it.unitPrice
LineAmount(it) == JsTimes(it.quantity, JsTimes(it.unitPrice, JsNum(CentMicros)))

\* items.reduce((sum, it) => sum + it.quantity * it.unitPrice, 0)
RECURSIVE SumAmount(_, _)
SumAmount(its, sum) ==
    IF its = <<>> THEN sum ELSE SumAmount(Tail(its), JsPlus(sum, LineAmount(Head(its))))

Subtotal(its) == SumAmount(its, JsNum(0))

PromoDiscount(sub, pr) == TimesRate(sub, pr.discountRate)

\* Math.max(0, subtotal - promoDiscount)
Taxable(sub, discount) == MathMax(JsNum(0), JsMinus(sub, discount))

\* the tax taken on the subtotal, before the discount
FeesTaxBeforeDiscount(sub, discount) ==
    LET taxable == MathMax(JsNum(0), sub)
    IN  [serviceFee |->
             IF JsLess(JsNum(0), sub)
             THEN MathMin(JsNum(ServiceFeeMax),
                          MathMax(JsNum(ServiceFeeMin), TimesRatio(sub, ServiceFeePercent, 100)))
             ELSE JsNum(0),
         deliveryFee |-> IF JsLess(JsNum(0), sub) THEN JsNum(DeliveryFee) ELSE JsNum(0),
         tax |-> IF JsLess(JsNum(0), taxable)
                 THEN TimesRatio(taxable, TaxRateNum, TaxRateDen)
                 ELSE JsNum(0)]

Fees(sub, discount) ==
    LET taxable == Taxable(sub, discount)
    IN  [serviceFee |->
             IF JsLess(JsNum(0), sub)
             THEN MathMin(JsNum(ServiceFeeMax),
                          MathMax(JsNum(ServiceFeeMin), TimesRatio(sub, ServiceFeePercent, 100)))
             ELSE JsNum(0),
         deliveryFee |-> IF JsLess(JsNum(0), sub) THEN JsNum(DeliveryFee) ELSE JsNum(0),
         tax |-> IF JsLess(JsNum(0), taxable)
                 THEN TimesRatio(taxable, TaxRateNum, TaxRateDen)
                 ELSE JsNum(0)]

\* subtotal - promoDiscount + fees.serviceFee + fees.deliveryFee + fees.tax
Total(sub, discount, fs) ==
    JsPlus(JsPlus(JsPlus(JsMinus(sub, discount), fs.serviceFee), fs.deliveryFee), fs.tax)

subtotal == Subtotal(items)
promoDiscount == PromoDiscount(subtotal, promo)
fees == Fees(subtotal, promoDiscount)
total == Total(subtotal, promoDiscount, fees)

-----------------------------------------------------------------------------
(* Promo codes: (codeRaw || "").trim().toUpperCase() and the catalog *)

Lower == <<"a", "b", "c", "d", "e", "f", "g", "h", "i", "j", "k", "l", "m",
           "n", "o", "p", "q", "r", "s", "t", "u", "v", "w", "x", "y", "z">>
Upper == <<"A", "B", "C", "D", "E", "F", "G", "H", "I", "J", "K", "L", "M",
           "N", "O", "P", "Q", "R", "S", "T", "U", "V", "W", "X", "Y", "Z">>

UpperChar(c) ==
    IF \E i \in DOMAIN Lower : Lower[i] = c
    THEN Upper[CHOOSE i \in DOMAIN Lower : Lower[i] = c]
    ELSE c

toUpperCase(str) == [i \in DOMAIN str |-> UpperChar(str[i])]

IsSpace(c) == c = " "

RECURSIVE TrimStart(_)
TrimStart(str) ==
    IF str # <<>> /\ IsSpace(Head(str)) THEN TrimStart(Tail(str)) ELSE str

RECURSIVE TrimEnd(_)
TrimEnd(str) ==
    IF str # <<>> /\ IsSpace(str[Len(str)])
    THEN TrimEnd(SubSeq(str, 1, Len(str) - 1))
    ELSE str

trim(str) == TrimEnd(TrimStart(str))

OCEAN10 == <<"O", "C", "E", "A", "N", "1", "0">>
SHIPFREE == <<"S", "H", "I", "P", "F", "R", "E", "E">>

\* the code upper-cased and not trimmed
computePromoFromCodeUntrimmed(codeRaw) ==
    LET raw == IF TypeOf(codeRaw) = "string" THEN codeRaw.s ELSE <<>>
        code == toUpperCase(raw)
    IN  IF code = OCEAN10 THEN [code |-> JsStr(code), discountRate |-> JsNum(Ocean10Rate)]
        ELSE IF code = SHIPFREE THEN [code |-> JsStr(code), discountRate |-> JsNum(ShipFreeRate)]
        ELSE [code |-> JsStr(code), discountRate |-> JsNum(0)]

\* codeRaw is a string, or a falsy value replaced by ""
computePromoFromCode(codeRaw) ==
    LET raw == IF TypeOf(codeRaw) = "string" THEN codeRaw.s ELSE <<>>
        code == toUpperCase(trim(raw))
    IN  IF code = OCEAN10 THEN [code |-> JsStr(code), discountRate |-> JsNum(Ocean10Rate)]
        ELSE IF code = SHIPFREE THEN [code |-> JsStr(code), discountRate |-> JsNum(ShipFreeRate)]
        ELSE [code |-> JsStr(code), discountRate |-> JsNum(0)]

-----------------------------------------------------------------------------
(* Inputs *)

IdA == JsStr(<<"a">>)
IdB == JsStr(<<"b">>)
NameA == JsStr(<<"A">>)
NameB == JsStr(<<"B">>)

MenuItem(k, id, name, price) == [k |-> k, id |-> id, name |-> name, price |-> price]

NoCandidate == MenuItem("null", JsUndefined, JsUndefined, JsUndefined)

\* what addItem is called with: menu items, and malformed candidates (the id
\* of a menu item under another name and without a price, no id, null)
Candidates ==
    { MenuItem("object", IdA, NameA, JsNum(1000)),
      MenuItem("object", IdB, NameB, JsNum(500)),
      MenuItem("object", IdA, NameB, JsUndefined),
      MenuItem("object", JsUndefined, NameA, JsNum(1000)),
      NoCandidate }

ItemIds == {IdA, IdB}

RawCodes ==
    { JsStr(<<" ", "o", "c", "e", "a", "n", "1", "0", " ">>),
      JsStr(SHIPFREE),
      JsStr(<<"x">>),
      JsStr(<<>>) }

-----------------------------------------------------------------------------
(* Storage contents at start: what an earlier version, another tool or a   *)
(* hand edit may have left under the three keys.                           *)

ObjJ(itemId, name, unitPrice, quantity, notes) ==
    ElemJ("object", itemId, name, unitPrice, quantity, notes)

JA == JStr(<<"a">>)
JB == JStr(<<"b">>)
JNameA == JStr(<<"A">>)
JNameB == JStr(<<"B">>)
JNoNotes == JStr(<<>>)

ElemA2 == ObjJ(JA, JNameA, JNum(1000), JNum(2), JNoNotes)
ElemA1 == ObjJ(JA, JNameA, JNum(1000), JNum(1), JNoNotes)
ElemB1 == ObjJ(JB, JNameB, JNum(500), JNum(1), JNoNotes)
\* {"itemId": "b", "name": "B", "unitPrice": -500, "quantity": 0, "notes": ""}
ElemBad == ObjJ(JB, JNameB, JNum(-500), JNum(0), JNoNotes)
\* {"itemId": "a"}
ElemBare == ObjJ(JA, JAbsent, JAbsent, JAbsent, JAbsent)
\* {"itemId": "b", "name": 7, "unitPrice": 1e999, "quantity": "3", "notes": null}
ElemOdd == ObjJ(JB, JNum(7), JHuge, JStr(<<"3">>), JNull)
\* {"name": "A", "unitPrice": 1000, "quantity": 1}, {"itemId": 7, ...}, 5
ElemNoId == ObjJ(JAbsent, JNameA, JNum(1000), JNum(1), JAbsent)
ElemNumId == ObjJ(JNum(7), JNameA, JNum(1000), JNum(1), JNoNotes)
ElemNumber == ElemJ("number", JAbsent, JAbsent, JAbsent, JAbsent, JAbsent)

StoredLists ==
    { <<>>,
      <<ElemA2, ElemB1>>,
      <<ElemA1, ElemA1>>,
      <<ElemA1, ElemA2>>,
      <<ElemBad>>,
      <<ElemNoId, ElemBare, ElemNumber>>,
      <<ElemNumId, ElemOdd>> }

StoredPromos ==
    { PromoJ("object", JStr(OCEAN10), JNum(1000)),
      PromoJ("object", JStr(<<"B", "I", "G">>), JNum(9000)),
      PromoJ("object", JNum(7), JNum(-2000)),
      PromoJ("object", JAbsent, JHuge) }

\* texts under the v2 key
StoredV2 ==
    { AbsentText, EmptyText, GarbageText, PlainText("null"), PlainText("number"),
      ArrayText(<<ElemA2>>),
      EnvelopeText(JAbsent, ItemsJ("array", <<ElemB1>>), PromoJ("absent", JAbsent, JAbsent),
                   JAbsent),
      EnvelopeText(JNum(1), ItemsJ("array", <<ElemB1>>),
                   PromoJ("object", JStr(SHIPFREE), JNum(600)), JNum(0)),
      EnvelopeText(JStr(<<"2">>), ItemsJ("array", <<ElemB1>>),
                   PromoJ("object", JStr(SHIPFREE), JNum(600)), JNum(0)),
      EnvelopeText(JNum(2), ItemsJ("object", <<>>), PromoJ("array", JAbsent, JAbsent),
                   JNum(0)),
      EnvelopeText(JNum(2), ItemsJ("absent", <<>>), PromoJ("null", JAbsent, JAbsent),
                   JAbsent) }
    \cup { EnvelopeText(JNum(2), ItemsJ("array", l), p, JNum(0)) :
             l \in StoredLists, p \in StoredPromos }

\* texts under the legacy items key
StoredV1 ==
    { AbsentText, GarbageText, PlainText("null"), PromoText(JStr(OCEAN10), JNum(1000)) }
    \cup { ArrayText(l) : l \in StoredLists }

\* texts under the legacy promo key
StoredPromoV1 ==
    { AbsentText, GarbageText, PlainText("number"), ArrayText(<<ElemA2>>) }
    \cup { PromoText(p.code, p.discountRate) : p \in StoredPromos }

Store(v2, v1, pr) ==
    [key \in Keys |->
        CASE key = CART_STORAGE_KEY_V2 -> v2
          [] key = CART_STORAGE_KEY_V1 -> v1
          [] key = PROMO_STORAGE_KEY_V1 -> pr]

EmptyStore == Store(AbsentText, AbsentText, AbsentText)

-----------------------------------------------------------------------------
(* The order of AppContent (src/frontend_app/src/App.js): the order value, *)
(* its JSON text under the last-order key, the tracking interval           *)

LAST_ORDER_STORAGE_KEY == "food_order_last_order_v1"

\* the thresholds of the interval callback, in milliseconds
PreparingAfter == 30000
OutForDeliveryAfter == 75000
DeliveredAfter == 120000
\* the progress of an order just created
InitialProgress == 3

\* a status string, held whole
Status(name) == JsStr(<<name>>)
Confirmed == Status("Confirmed")
Preparing == Status("Preparing")
OutForDelivery == Status("Out for delivery")
Delivered == Status("Delivered")
Cancelled == Status("Cancelled")

\* the identifiers of orders: made locally (ORD-xxxxx-dddd), given by the
\* remote service
LocalId == JsStr(<<"ORD-LOCAL">>)
RemoteId == JsStr(<<"remote-1">>)

\* the checkout fields
Form(customerName, deliveryAddress) ==
    [customerName |-> customerName, deliveryAddress |-> deliveryAddress]

NoForm == Form(<<>>, <<>>)

\* one line of payload.items: the cart line without its notes
PayloadLine(it) ==
    [itemId |-> it.itemId, name |-> it.name, unitPrice |-> it.unitPrice,
     quantity |-> it.quantity]

PayloadItems(its) == [i \in DOMAIN its |-> PayloadLine(its[i])]

\* payload.pricing of placeOrder: promo.code || null, and the amounts of the
\* cart store
PayloadPricing(its, pr) ==
    LET sub == Subtotal(its)
        discount == PromoDiscount(sub, pr)
        fs == Fees(sub, discount)
    IN  [k |-> "object",
         subtotal |-> sub,
         promoCode |-> IF pr.code = JsStr(<<>>) THEN JsNull ELSE pr.code,
         promoDiscount |-> discount,
         serviceFee |-> fs.serviceFee,
         deliveryFee |-> fs.deliveryFee,
         tax |-> fs.tax,
         total |-> Total(sub, discount, fs)]

NoPricing ==
    [k |-> "undefined", subtotal |-> JsUndefined, promoCode |-> JsUndefined,
     promoDiscount |-> JsUndefined, serviceFee |-> JsUndefined,
     deliveryFee |-> JsUndefined, tax |-> JsUndefined, total |-> JsUndefined]

\* the payload built by placeOrder from the render it was called in
Payload(form, its, pr) ==
    [customerName |-> trim(form.customerName),
     deliveryAddress |-> trim(form.deliveryAddress),
     items |-> PayloadItems(its),
     pricing |-> PayloadPricing(its, pr)]

\* the value of the order state: null, a number, or an object of which the
\* properties may be missing (items and pricing: k = "undefined")
OrderValue(k, num, id, createdAt, status, progress, customerName, deliveryAddress, its, pricing) ==
    [k |-> k, num |-> num, id |-> id, createdAt |-> createdAt, status |-> status,
     progress |-> progress, customerName |-> customerName,
     deliveryAddress |-> deliveryAddress, items |-> its, pricing |-> pricing]

NoItems == [k |-> "undefined", elems |-> <<>>]

NoOrder ==
    OrderValue("null", 0, JsUndefined, JsUndefined, JsUndefined, JsUndefined,
               JsUndefined, JsUndefined, NoItems, NoPricing)

NumberOrder(n) ==
    OrderValue("number", n, JsUndefined, JsUndefined, JsUndefined, JsUndefined,
               JsUndefined, JsUndefined, NoItems, NoPricing)

\* the object handed to setOrder by placeOrder
NewOrder(orderId, t, payload) ==
    OrderValue("object", 0, orderId, JsNum(t), Confirmed, JsNum(InitialProgress),
               JsStr(payload.customerName), JsStr(payload.deliveryAddress),
               [k |-> "array", elems |-> payload.items], payload.pricing)

\* !order
OrderFalsy(o) == o.k = "null" \/ (o.k = "number" /\ o.num = 0)

\* JSON.stringify of the order: every property through StringifyScalar
StringifyPayloadLines(elems) ==
    [i \in DOMAIN elems |->
        [itemId |-> StringifyScalar(elems[i].itemId),
         name |-> StringifyScalar(elems[i].name),
         unitPrice |-> StringifyScalar(elems[i].unitPrice),
         quantity |-> StringifyScalar(elems[i].quantity)]]

StringifyPricing(p) ==
    [k |-> IF p.k = "undefined" THEN "absent" ELSE p.k,
     subtotal |-> StringifyScalar(p.subtotal),
     promoCode |-> StringifyScalar(p.promoCode),
     promoDiscount |-> StringifyScalar(p.promoDiscount),
     serviceFee |-> StringifyScalar(p.serviceFee),
     deliveryFee |-> StringifyScalar(p.deliveryFee),
     tax |-> StringifyScalar(p.tax),
     total |-> StringifyScalar(p.total)]

StringifyOrder(o) ==
    [k |-> o.k, num |-> o.num,
     id |-> StringifyScalar(o.id),
     createdAt |-> StringifyScalar(o.createdAt),
     status |-> StringifyScalar(o.status),
     progress |-> StringifyScalar(o.progress),
     customerName |-> StringifyScalar(o.customerName),
     deliveryAddress |-> StringifyScalar(o.deliveryAddress),
     items |-> [k |-> IF o.items.k = "undefined" THEN "absent" ELSE o.items.k,
                elems |-> StringifyPayloadLines(o.items.elems)],
     pricing |-> StringifyPricing(o.pricing)]

\* the texts of the last-order key that are no JSON value: no text (getItem
\* gives null), text that does not parse
PlainOrderText(k) == [StringifyOrder(NoOrder) EXCEPT !.k = k]

AbsentOrderText == PlainOrderText("absent")
GarbageOrderText == PlainOrderText("garbage")

\* JSON.parse of a text of the last-order key
ParsePayloadLines(elems) ==
    [i \in DOMAIN elems |->
        [itemId |-> ParseScalar(elems[i].itemId),
         name |-> ParseScalar(elems[i].name),
         unitPrice |-> ParseScalar(elems[i].unitPrice),
         quantity |-> ParseScalar(elems[i].quantity)]]

ParsePricing(p) ==
    [k |-> IF p.k = "absent" THEN "undefined" ELSE p.k,
     subtotal |-> ParseScalar(p.subtotal),
     promoCode |-> ParseScalar(p.promoCode),
     promoDiscount |-> ParseScalar(p.promoDiscount),
     serviceFee |-> ParseScalar(p.serviceFee),
     deliveryFee |-> ParseScalar(p.deliveryFee),
     tax |-> ParseScalar(p.tax),
     total |-> ParseScalar(p.total)]

ParseOrder(text) ==
    [k |-> text.k, num |-> text.num,
     id |-> ParseScalar(text.id),
     createdAt |-> ParseScalar(text.createdAt),
     status |-> ParseScalar(text.status),
     progress |-> ParseScalar(text.progress),
     customerName |-> ParseScalar(text.customerName),
     deliveryAddress |-> ParseScalar(text.deliveryAddress),
     items |-> [k |-> IF text.items.k = "absent" THEN "undefined" ELSE text.items.k,
                elems |-> ParsePayloadLines(text.items.elems)],
     pricing |-> ParsePricing(text.pricing)]

\* safeParseJson of App.js: the parsed value, the fallback when JSON.parse
\* throws or gives null
AppSafeParseJson(maybeJson, fallback) ==
    IF maybeJson.k \in {"garbage", "empty"}
    THEN fallback
    ELSE LET parsed == ParseOrder(maybeJson)
         IN  IF parsed.k = "null" THEN fallback ELSE parsed

\* the initial state of order: saved ? safeParseJson(saved, null) : null
InitialOrder(saved) ==
    IF saved.k \in {"absent", "empty"} THEN NoOrder ELSE AppSafeParseJson(saved, NoOrder)

\* clamp(n, min, max)
clamp(n, min, max) == MathMax(min, MathMin(max, n))

\* Math.round((elapsed / 120000) * 100): the nearest integer, a half upward
RoundedPercent(elapsed) ==
    LET x == ToNumber(elapsed)
    IN  IF x.t = "number"
        THEN JsNum((x.n * 100 + DeliveredAfter \div 2) \div DeliveredAfter)
        ELSE x

\* a === b on scalars: NaN equals nothing
StrictEquals(a, b) == a = b /\ a.t # "NaN"

\* the tests for Preparing and Out for delivery taken one for the other
TickStatusSwapped(prev, t) ==
    LET elapsed == JsMinus(JsNum(t), prev.createdAt)
    IN  IF JsLess(elapsed, JsNum(PreparingAfter)) THEN Confirmed
        ELSE IF JsLess(elapsed, JsNum(OutForDeliveryAfter)) THEN OutForDelivery
        ELSE IF JsLess(elapsed, JsNum(DeliveredAfter)) THEN Preparing
        ELSE Delivered

\* the status and the progress computed by the interval callback at time t
\* (elapsed, and the rounded percentage, computed once)
TickStatus(prev, t) ==
    CHOOSE status \in
        { IF JsLess(elapsed, JsNum(PreparingAfter)) THEN Confirmed
          ELSE IF JsLess(elapsed, JsNum(OutForDeliveryAfter)) THEN Preparing
          ELSE IF JsLess(elapsed, JsNum(DeliveredAfter)) THEN OutForDelivery
          ELSE Delivered : elapsed \in {JsMinus(JsNum(t), prev.createdAt)} } : TRUE

TickProgress(prev, t) ==
    CHOOSE progress \in
        { clamp(rounded, JsNum(0), JsNum(100)) :
            rounded \in { RoundedPercent(elapsed) :
                            elapsed \in {JsMinus(JsNum(t), prev.createdAt)} } } : TRUE

\* an updater that never hands back the object it was given
TickKeepsNever(prev, t) == FALSE

\* the updater returns prev itself: no order, or status and progress both
\* === those of prev
TickKeeps(prev, t) ==
    \/ OrderFalsy(prev)
    \/ \E status \in {TickStatus(prev, t)}, progress \in {TickProgress(prev, t)} :
          /\ StrictEquals(status, prev.status)
          /\ StrictEquals(progress, prev.progress)

\* the updater handed to setOrder by the interval callback, at time t
TickUpdater(prev, t) ==
    IF TickKeeps(prev, t)
    THEN prev
    ELSE [prev EXCEPT !.k = "object", !.num = 0,
                      !.status = TickStatus(prev, t),
                      !.progress = TickProgress(prev, t)]

\* the tracking effect without the test for Cancelled
TracksUnlessDelivered(o) ==
    ~(OrderFalsy(o) \/ o.status = Delivered)

\* the tracking effect, run after its cleanup for an order that changed: an
\* interval is left running exactly for an order that is there and is neither
\* Delivered nor Cancelled
Tracks(o) ==
    ~(OrderFalsy(o) \/ o.status = Delivered \/ o.status = Cancelled)

\* canCheckout()
canCheckout(its, form) ==
    /\ Len(its) > 0
    /\ Len(trim(form.customerName)) > 0
    /\ Len(trim(form.deliveryAddress)) > 5

-----------------------------------------------------------------------------
(* The operations *)

\* the last operation: its name and argument, where loadCartState took the
\* state from, what the persistence effect did, the storage calls that were
\* rejected, and whether an exception reached the caller
OpRecord(name, menuItem, itemId, codeRaw, form, loaded, e, rejectedReads, rejectedWrites) ==
    [name |-> name, menuItem |-> menuItem, itemId |-> itemId, codeRaw |-> codeRaw,
     form |-> form, loaded |-> loaded, saved |-> e.saved, threw |-> e.threw,
     rejectedReads |-> rejectedReads, rejectedWrites |-> rejectedWrites]

\* the keys on which localStorage may throw during one operation
MayReject == {r \in SUBSET Keys : Cardinality(r) <= rejectsLeft}

\* the component tree is rendered: the app was started and no render threw
Mounted == op.name \notin {"boot", "crashed"}

\* no quantity grows beyond the bound of the model
WithinQty(its) ==
    \A i \in DOMAIN its : JsLeq(its[i].quantity, JsNum(MaxQty))

\* a state update of the cart committed by React: the render with (its, pr),
\* then the persistence effect when runsEffect (a dependency changed identity)
CommitCart(name, menuItem, itemId, codeRaw, form, its, pr, runsEffect) ==
    \E rejected \in MayReject :
        LET e == IF runsEffect
                 THEN PersistEffect(storage, lastPersisted, its, pr, now, rejected)
                 ELSE NoEffect(storage, lastPersisted)
        IN  /\ rejected \subseteq e.attempted
            /\ items' = its
            /\ promo' = pr
            /\ storage' = e.store
            /\ lastPersisted' = e.lastPersisted
            /\ rejectsLeft' = rejectsLeft - Cardinality(rejected)
            /\ op' = OpRecord(name, menuItem, itemId, codeRaw, form, "none", e, {}, rejected)
            /\ UNCHANGED now

\* a cart operation: the order state of AppContent is not touched
Commit(name, menuItem, itemId, codeRaw, its, pr, runsEffect) ==
    /\ CommitCart(name, menuItem, itemId, codeRaw, NoForm, its, pr, runsEffect)
    /\ UNCHANGED orderVars

\* what tells one order from another: the order without its status and
\* progress
OrderIdentity(o) == [o EXCEPT !.status = JsUndefined, !.progress = JsUndefined]

\* a clearInterval that stops nothing
ClearIntervalStopsNothing(ivs) == ivs

\* window.clearInterval(progressTimerRef.current): the interval last set is
\* no more
ClearInterval(ivs) == SubSeq(ivs, 1, Len(ivs) - 1)

\* a cleanup that leaves the interval running and the ref as it is
TrackingCleanupKeepsInterval(ref, ivs) ==
    [ref |-> ref, intervals |-> ivs]

\* the cleanup of the tracking effect: the interval held is cleared, the ref
\* is null
TrackingCleanup(ref, ivs) ==
    [ref |-> FALSE, intervals |-> IF ref THEN ClearInterval(ivs) ELSE ivs]

\* a tracking effect that sets no interval
TrackingEffectSetsNoInterval(o, ref, ivs) ==
    [ref |-> FALSE, intervals |-> IF ref THEN ClearInterval(ivs) ELSE ivs]

\* the tracking effect for the order o: no interval for no order and for a
\* Delivered or Cancelled one; else the interval held is kept, or one is set
TrackingEffect(o, ref, ivs) ==
    IF ~Tracks(o)
    THEN [ref |-> FALSE, intervals |-> IF ref THEN ClearInterval(ivs) ELSE ivs]
    ELSE IF ref
    THEN [ref |-> ref, intervals |-> ivs]
    ELSE [ref |-> TRUE, intervals |-> Append(ivs, OrderIdentity(o))]

\* the effects of AppContent after a render with a new order o, the ref and
\* the intervals being (ref, ivs): the order is written under the last-order
\* key; the cleanup of the tracking effect runs, then the effect for o.  The
\* effects are taken with the render that causes them: React runs them before
\* it handles the next state update, so that an update, one made by a tick
\* included, always finds the effects of the render before it done
OrderEffectsFrom(o, ref, ivs) ==
    LET c == TrackingCleanup(ref, ivs)
        e == TrackingEffect(o, c.ref, c.intervals)
    IN  /\ orderStorage' = StringifyOrder(o)
        /\ orderWritten' = TRUE
        /\ timer' = e.ref
        /\ intervals' = e.intervals

OrderEffects(o) == OrderEffectsFrom(o, timer, intervals)

\* no placeOrder call is awaiting
NoPlacing == [k |-> "none", payload |-> Payload(NoForm, <<>>, NoPromo)]

\* a cache of the last persisted payload taken from the store at the start
LastPersistedFromStore(store) == store[CART_STORAGE_KEY_V2]

\* useRef(""): the last persisted payload of a process just started
InitialLastPersisted(store) == EmptyText

\* the tracking card of AppContent reads order.items.map and order.pricing.*
\* of every truthy order: a TypeError when items or pricing is missing
RenderThrows(o) ==
    /\ ~OrderFalsy(o)
    /\ o.items.k # "array" \/ o.pricing.k # "object"

\* a render that throws with no error boundary above it: React unmounts the
\* whole tree, no effect runs, nothing is written, no handler is left
RenderCrash ==
    /\ op' = OpRecord("crashed", NoCandidate, JsUndefined, JsUndefined, NoForm,
                      LoadedFrom(storage, {}), NoEffect(storage, EmptyText), {}, {})
    /\ items' = <<>>
    /\ promo' = NoPromo
    /\ lastPersisted' = EmptyText
    /\ order' = InitialOrder(orderStorage)
    /\ timer' = FALSE
    /\ intervals' = <<>>
    /\ orderWritten' = FALSE
    /\ placing' = NoPlacing
    /\ UNCHANGED <<storage, now, rejectsLeft, orderStorage, apiBase>>

\* CartProvider and AppContent are constructed (a first start, a reload): the
\* cart state is hydrated by loadCartState, lastPersistedRef starts "", the
\* effect runs; the order is hydrated from the last-order key, written back,
\* and tracked; a call that was awaiting and the intervals are gone with the
\* page
CartProvider ==
    IF RenderThrows(InitialOrder(orderStorage)) THEN RenderCrash ELSE
    \E rejectedReads \in MayReject, rejected \in MayReject :
        LET initial == loadCartState(storage, rejectedReads)
            e == PersistEffect(storage, InitialLastPersisted(storage), initial.items,
                               initial.promo, now, rejected)
        IN  /\ rejectedReads \subseteq KeysRead(storage, rejectedReads)
            /\ rejected \subseteq e.attempted
            /\ Cardinality(rejectedReads) + Cardinality(rejected) <= rejectsLeft
            /\ items' = initial.items
            /\ promo' = initial.promo
            /\ storage' = e.store
            /\ lastPersisted' = e.lastPersisted
            /\ rejectsLeft' = rejectsLeft - Cardinality(rejectedReads) - Cardinality(rejected)
            /\ op' = OpRecord("CartProvider", NoCandidate, JsUndefined, JsUndefined, NoForm,
                              LoadedFrom(storage, rejectedReads),
                              e, rejectedReads, rejected)
            /\ order' = InitialOrder(orderStorage)
            /\ OrderEffectsFrom(InitialOrder(orderStorage), FALSE, <<>>)
            /\ placing' = NoPlacing
            /\ UNCHANGED <<now, apiBase>>

addItem(menuItem) ==
    /\ Mounted
    /\ IF AcceptsItem(menuItem)
       THEN /\ WithinQty(addItemUpdater(items, menuItem))
            /\ Commit("addItem", menuItem, JsUndefined, JsUndefined, addItemUpdater(items, menuItem), promo, TRUE)
       ELSE Commit("addItem", menuItem, JsUndefined, JsUndefined, items, promo, FALSE)

incrementItem(itemId) ==
    /\ Mounted
    /\ WithinQty(incrementItemUpdater(items, itemId))
    /\ Commit("incrementItem", NoCandidate, itemId, JsUndefined,
              incrementItemUpdater(items, itemId), promo, TRUE)

decrementItem(itemId) ==
    /\ Mounted
    /\ Commit("decrementItem", NoCandidate, itemId, JsUndefined,
              decrementItemUpdater(items, itemId), promo, HasLine(items, itemId))

removeItem(itemId) ==
    /\ Mounted
    /\ Commit("removeItem", NoCandidate, itemId, JsUndefined,
              removeItemUpdater(items, itemId), promo, TRUE)

\* clearCart that resets the promo with the lines
clearCartAndPromo ==
    /\ Mounted
    /\ Commit("clearCart", NoCandidate, JsUndefined, JsUndefined, <<>>, NoPromo, TRUE)

clearCart ==
    /\ Mounted
    /\ Commit("clearCart", NoCandidate, JsUndefined, JsUndefined, <<>>, promo, TRUE)

applyPromo(codeRaw) ==
    /\ Mounted
    /\ Commit("applyPromo", NoCandidate, JsUndefined, codeRaw,
              items, computePromoFromCode(codeRaw), TRUE)

clearPromo ==
    /\ Mounted
    /\ Commit("clearPromo", NoCandidate, JsUndefined, JsUndefined,
              items, NoPromo, TRUE)

\* time passes
Tick ==
    /\ now < MaxNow
    /\ now' = now + 1
    /\ UNCHANGED <<storage, items, promo, lastPersisted, rejectsLeft, op>>
    /\ UNCHANGED orderVars

\* the order is installed, the cart is left as it was
InstallOrderKeepsCart(name, form, orderId, payload) ==
    /\ CommitCart(name, NoCandidate, JsUndefined, JsUndefined, form, items, promo, FALSE)
    /\ order' = NewOrder(orderId, now, payload)
    /\ OrderEffects(NewOrder(orderId, now, payload))
    /\ placing' = NoPlacing
    /\ UNCHANGED apiBase

\* the order made by a placeOrder call is installed: setOrder, clearCart(),
\* and setIsPlacingOrder(false), in one render; then the effects
InstallOrder(name, form, orderId, payload) ==
    /\ CommitCart(name, NoCandidate, JsUndefined, JsUndefined, form, <<>>, promo, TRUE)
    /\ order' = NewOrder(orderId, now, payload)
    /\ OrderEffects(NewOrder(orderId, now, payload))
    /\ placing' = NoPlacing
    /\ UNCHANGED apiBase

\* placeOrder without the test of isPlacingOrder
placeOrderWhilePlacing(form) ==
    /\ Mounted
    /\ now <= MaxPlacedAt
    /\ IF ~canCheckout(items, form)
       THEN /\ CommitCart("placeOrder", NoCandidate, JsUndefined, JsUndefined, form,
                          items, promo, FALSE)
            /\ UNCHANGED orderVars
       ELSE IF apiBase = ""
       THEN InstallOrder("placeOrder", form, LocalId, Payload(form, items, promo))
       ELSE /\ CommitCart("placeOrder", NoCandidate, JsUndefined, JsUndefined, form,
                          items, promo, FALSE)
            /\ placing' = [k |-> "inFlight", payload |-> Payload(form, items, promo)]
            /\ UNCHANGED <<orderStorage, order, timer, intervals, orderWritten, apiBase>>

\* placeOrder(): nothing if the checkout is not valid or a call is awaiting;
\* without an API base the order is made at once, with one the call awaits
\* the answer of fetch
placeOrder(form) ==
    /\ Mounted
    /\ now <= MaxPlacedAt
    /\ IF ~canCheckout(items, form) \/ placing.k = "inFlight"
       THEN /\ CommitCart("placeOrder", NoCandidate, JsUndefined, JsUndefined, form,
                          items, promo, FALSE)
            /\ UNCHANGED orderVars
       ELSE IF apiBase = ""
       THEN InstallOrder("placeOrder", form, LocalId, Payload(form, items, promo))
       ELSE /\ CommitCart("placeOrder", NoCandidate, JsUndefined, JsUndefined, form,
                          items, promo, FALSE)
            /\ placing' = [k |-> "inFlight", payload |-> Payload(form, items, promo)]
            /\ UNCHANGED <<orderStorage, order, timer, intervals, orderWritten, apiBase>>

\* the fetch of a placeOrder call settles: with an order of the service
\* (res.ok and an id), or without one (not ok, a rejection)
fetchSettles(ok) ==
    /\ Mounted
    /\ placing.k = "inFlight"
    /\ InstallOrder("fetchSettles", NoForm, IF ok THEN RemoteId ELSE LocalId,
                    placing.payload)

\* startNewOrder(): setOrder(null); null on null is no state change
startNewOrder ==
    /\ Mounted
    /\ CommitCart("startNewOrder", NoCandidate, JsUndefined, JsUndefined, NoForm,
                  items, promo, FALSE)
    /\ order' = NoOrder
    /\ IF order = NoOrder
       THEN UNCHANGED <<orderStorage, timer, intervals, orderWritten>>
       ELSE OrderEffects(NoOrder)
    /\ UNCHANGED <<placing, apiBase>>

\* the interval fires: setOrder with the updater; an order given back as it
\* was is no state change, a new one is rendered and the effects run
trackingTick ==
    /\ Mounted
    /\ intervals # <<>>
    /\ CommitCart("trackingTick", NoCandidate, JsUndefined, JsUndefined, NoForm,
                  items, promo, FALSE)
    /\ \E next \in {TickUpdater(order, now)}, kept \in {TickKeeps(order, now)} :
          /\ order' = next
          /\ IF kept
             THEN /\ orderWritten' = FALSE
                  /\ UNCHANGED <<orderStorage, timer, intervals>>
             ELSE OrderEffects(next)
    /\ UNCHANGED <<placing, apiBase>>

\* the instants looked at in the life of an order, in milliseconds
Instants == {0, 750, 30000, 31000, 119400, 121000}

\* time passes, up to a later instant, while there is an order and no call
\* awaits
Elapse ==
    /\ ~OrderFalsy(order)
    /\ placing.k = "none"
    /\ \E t \in Instants : t > now /\ now' = t
    /\ UNCHANGED <<storage, items, promo, lastPersisted, rejectsLeft, op>>
    /\ UNCHANGED orderVars

-----------------------------------------------------------------------------
(* Specifications *)

BootApp(store, rejects, orderText, base) ==
    /\ storage = store
    /\ items = <<>>
    /\ promo = NoPromo
    /\ lastPersisted = EmptyText
    /\ now = 0
    /\ rejectsLeft = rejects
    /\ op = OpRecord("boot", NoCandidate, JsUndefined, JsUndefined, NoForm, "none",
                     NoEffect(store, EmptyText), {}, {})
    /\ orderStorage = orderText
    /\ order = NoOrder
    /\ timer = FALSE
    /\ intervals = <<>>
    /\ orderWritten = FALSE
    /\ placing = NoPlacing
    /\ apiBase = base

\* before the first start with no order stored and no API base (demo mode)
Boot(store, rejects) == BootApp(store, rejects, AbsentOrderText, "")

\* the legacy texts tried beside an envelope that loadCartState takes: none,
\* and a cart and a promo other than those of the envelope
BesideEnvelope ==
    { <<AbsentText, AbsentText>>,
      <<ArrayText(<<ElemBad>>), PromoText(JStr(<<"B", "I", "G">>), JNum(9000))>> }

\* before the first start, over the storage contents; storage works
Init ==
    \E v2 \in StoredV2, v1 \in StoredV1, pr \in StoredPromoV1 :
        /\ TakesEnvelope(Store(v2, v1, pr), {}) => <<v1, pr>> \in BesideEnvelope
        /\ Boot(Store(v2, v1, pr), 0)

\* before the first start of a new user: nothing is stored; storage works
InitFresh == Boot(EmptyStore, 0)

\* before a start with a storage that rejects up to MaxFaults calls (quota
\* exceeded, access denied)
InitFaulty ==
    \E v2 \in {AbsentText, EnvelopeText(JNum(2), ItemsJ("array", <<ElemA2, ElemB1>>),
                                        PromoJ("object", JStr(OCEAN10), JNum(1000)), JNum(0))},
       legacy \in {<<AbsentText, AbsentText>>,
                   <<ArrayText(<<ElemB1>>), PromoText(JStr(SHIPFREE), JNum(600))>>} :
        Boot(Store(v2, legacy[1], legacy[2]), MaxFaults)

\* one operation, with its argument out of the given sets
Operation(candidates, itemIds, rawCodes) ==
    \/ CartProvider
    \/ \E menuItem \in candidates : addItem(menuItem)
    \/ \E itemId \in itemIds : incrementItem(itemId)
    \/ \E itemId \in itemIds : decrementItem(itemId)
    \/ \E itemId \in itemIds : removeItem(itemId)
    \/ clearCart
    \/ \E codeRaw \in rawCodes : applyPromo(codeRaw)
    \/ clearPromo
    \/ Tick

Next == Operation(Candidates, ItemIds, RawCodes)

\* under a failing storage: one menu item, one code, and null for a candidate
NextFaulty ==
    Operation({MenuItem("object", IdA, NameA, JsNum(1000)), NoCandidate}, {IdA},
              {JsStr(SHIPFREE)})

Spec == Init /\ [][Next]_vars

SpecFresh == InitFresh /\ [][Next]_vars

SpecFaulty == InitFaulty /\ [][NextFaulty]_vars

\* the checkout fields typed in: valid ones, no name, an address of five
\* characters between spaces
ValidForm == Form(<<"A", "l">>, <<"1", " ", "M", "a", "i", "n", " ", "S", "t">>)
NamelessForm == Form(<<" ">>, <<"1", " ", "M", "a", "i", "n", " ", "S", "t">>)
ShortAddressForm == Form(<<"A", "l">>, <<" ", "1", "2", "3", "4", "5", " ">>)

Forms == {ValidForm, NamelessForm, ShortAddressForm}

\* orders as a former session, another tool or a user may have left them
\* under the last-order key
StoredOrder(createdAt, status, progress) ==
    [StringifyOrder(NewOrder(LocalId, 0, Payload(ValidForm, <<>>, NoPromo)))
        EXCEPT !.createdAt = createdAt, !.status = status, !.progress = progress]

StatusOnlyText == [PlainOrderText("object") EXCEPT !.status = JStr(<<"Preparing">>)]

\* an order of which the creation time is missing
UndatedOrderText == [StoredOrder(JNum(0), JStr(<<"Preparing">>), JNum(26)) EXCEPT !.createdAt = JAbsent]

NumberOrderText == [PlainOrderText("number") EXCEPT !.num = 7]

StoredOrders ==
    { AbsentOrderText,
      GarbageOrderText,
      StoredOrder(JNum(0), JStr(<<"Delivered">>), JNum(100)),
      StoredOrder(JNum(0), JStr(<<"Cancelled">>), JNum(40)),
      StoredOrder(JNum(0), JStr(<<"Preparing">>), JNum(26)),
      StatusOnlyText,
      UndatedOrderText,
      NumberOrderText }

\* the cart left by a former session: none, one line and the code OCEAN10
StoredCarts ==
    { EmptyStore,
      Store(EnvelopeText(JNum(2), ItemsJ("array", <<ElemB1>>),
                         PromoJ("object", JStr(OCEAN10), JNum(1000)), JNum(0)),
            AbsentText, AbsentText) }

ApiBases == {"", "https://api.example"}

\* before the first start of the app: in demo mode over the orders stored,
\* over the carts stored, and with an API base
InitOrder ==
    \/ \E orderText \in StoredOrders : BootApp(EmptyStore, 0, orderText, "")
    \/ \E store \in StoredCarts : BootApp(store, 0, AbsentOrderText, "")
    \/ \E base \in ApiBases : BootApp(EmptyStore, 0, AbsentOrderText, base)

\* the app with its checkout and tracking: one menu item, added to an empty
\* cart or while a call awaits, and one code
NextOrder ==
    \/ CartProvider
    \/ /\ items = <<>> \/ placing.k = "inFlight"
       /\ addItem(MenuItem("object", IdA, NameA, JsNum(1000)))
    \/ clearCart
    \/ applyPromo(JsStr(SHIPFREE))
    \/ \E form \in Forms : placeOrder(form)
    \/ \E ok \in BOOLEAN : fetchSettles(ok)
    \/ startNewOrder
    \/ trackingTick
    \/ Elapse

SpecOrder == InitOrder /\ [][NextOrder]_vars

\* before the first start of a new user, in demo mode and with an API base
InitLive ==
    \E base \in ApiBases : BootApp(EmptyStore, 0, AbsentOrderText, base)

\* a checkout and the tracking of its order
NextLive ==
    \/ CartProvider
    \/ /\ items = <<>>
       /\ addItem(MenuItem("object", IdA, NameA, JsNum(1000)))
    \/ placeOrder(ValidForm)
    \/ \E ok \in BOOLEAN : fetchSettles(ok)
    \/ trackingTick
    \/ Elapse

\* the app with what its scheduling gives: an interval that runs fires, time
\* passes; nothing makes the remote service answer a fetch
SpecOrderLive ==
    /\ InitLive
    /\ [][NextLive]_vars
    /\ WF_vars(trackingTick)
    /\ WF_vars(Elapse)

-----------------------------------------------------------------------------
(* Properties *)

IsNumber(v, lo) == v.t = "number" /\ v.n >= lo

\* the sum of the quantities, line by line from the last
RECURSIVE QuantityTotal(_, _)
QuantityTotal(its, k) ==
    IF k = 0 THEN 0 ELSE its[k].quantity.n + QuantityTotal(its, k - 1)

\* C1: from an empty cart, after any sequence of addItem / incrementItem /
\* decrementItem / removeItem (and the other operations), itemsCount is the
\* sum of the quantities of the lines and every line has a quantity of at
\* least 1.  Checked under SpecFresh.
C1_CountIsSumOfPositiveQuantities ==
    /\ \A i \in DOMAIN items : IsNumber(items[i].quantity, 1)
    /\ itemsCount = JsNum(QuantityTotal(items, Len(items)))
    /\ itemsCount.n >= Len(items)

C1_Witness ==
    /\ op.name = "decrementItem"
    /\ op.saved = "written"
    /\ Len(items) = 2
    /\ itemsCount = JsNum(3)

\* C2: in every reachable cart state, hydrated from any storage contents or
\* produced by cart operations, no two lines share an itemId.
C2_NoTwoLinesShareItemId ==
    \A i, j \in DOMAIN items : i # j => items[i].itemId # items[j].itemId

WellFormedLine(l) ==
    /\ TypeOf(l.itemId) = "string"
    /\ TypeOf(l.name) = "string"
    /\ TypeOf(l.notes) = "string"
    /\ IsNumber(l.unitPrice, 0)
    /\ IsNumber(l.quantity, 1)

\* C3: every line that load() returns, whatever the storage keys hold, is a
\* well-formed CartLine: string itemId, name and notes, a unitPrice >= 0 and
\* an integer quantity >= 1.
C3_LoadedLinesAreWellFormed ==
    op.name = "CartProvider" => \A i \in DOMAIN items : WellFormedLine(items[i])

\* C4: the discountRate of the promo held by the cart store is a number within
\* [0, 0.5] in every reachable state (after applyPromo, clearPromo and a load
\* from any storage contents); a stored rate of 0.9 loads as 0.5 and a
\* negative stored rate as 0.
C4_DiscountRateWithinBounds ==
    /\ IsNumber(promo.discountRate, 0)
    /\ promo.discountRate.n <= 5000
    /\ sanitizePromo(ParsePromo(PromoJ("object", JStr(OCEAN10), JNum(9000)))).discountRate
         = JsNum(5000)
    /\ sanitizePromo(ParsePromo(PromoJ("object", JStr(OCEAN10), JNum(-2000)))).discountRate
         = JsNum(0)

C4_Witness ==
    /\ op.name = "CartProvider"
    /\ promo = [code |-> JsStr(<<"B", "I", "G">>), discountRate |-> JsNum(5000)]

\* the step is one of the operation of that name (time does not pass in it)
StepOf(name) == op'.name = name /\ now' = now

CartOperations ==
    {"addItem", "incrementItem", "decrementItem", "removeItem", "clearCart",
     "applyPromo", "clearPromo"}

\* the cart state in memory, as the values the sanitizers take
ItemsAsValue(its) ==
    [k |-> "array",
     elems |-> [i \in DOMAIN its |->
                  [k |-> "object", itemId |-> its[i].itemId, name |-> its[i].name,
                   unitPrice |-> its[i].unitPrice, quantity |-> its[i].quantity,
                   notes |-> its[i].notes]]]

PromoAsValue(pr) == [k |-> "object", code |-> pr.code, discountRate |-> pr.discountRate]

\* C5: with storage writes succeeding, a restart (CartProvider constructed
\* anew) after a cart operation and its save hydrates items and promo equal to
\* the sanitized pair that was in memory before the restart.
C5_RestartRestoresSanitizedState ==
    [][(op.name \in CartOperations /\ op.saved = "written" /\ StepOf("CartProvider"))
          => /\ items' = sanitizeItems(ItemsAsValue(items))
             /\ promo' = sanitizePromo(PromoAsValue(promo))]_vars

\* what the load is specified to return from the texts under the three keys
EnvelopeIsCurrent(text) == text.k = "object" /\ text.version = JNum(2)

LegacyItems(text) ==
    IF text.k = "array"
    THEN sanitizeItems([k |-> "array", elems |-> ParseElems(text.elems)])
    ELSE <<>>

LegacyPromo(text) ==
    IF text.k = "object"
    THEN sanitizePromo([k |-> "object", code |-> ParseScalar(text.code),
                        discountRate |-> ParseScalar(text.discountRate)])
    ELSE NoPromo

\* C6: a load returns the sanitized items and promo of the envelope exactly
\* when the text under the v2 key parses to an object with version 2 (the
\* legacy keys are then not looked at); in every other case it returns the
\* sanitized legacy items and the sanitized legacy promo, each legacy key
\* falling back to its own default independently of the other.
C6_LoadTakesEnvelopeIffCurrent ==
    [][(StepOf("CartProvider") /\ op'.rejectedReads = {})
          => LET v2 == storage[CART_STORAGE_KEY_V2]
             IN  IF EnvelopeIsCurrent(v2)
                 THEN /\ items' = sanitizeItems(ParseItems(v2.items))
                      /\ promo' = sanitizePromo(ParsePromo(v2.promo))
                      /\ op'.loaded = "envelope"
                 ELSE /\ items' = LegacyItems(storage[CART_STORAGE_KEY_V1])
                      /\ promo' = LegacyPromo(storage[PROMO_STORAGE_KEY_V1])
                      /\ op'.loaded # "envelope"]_vars

\* a load took an envelope that also had legacy keys beside it saying otherwise
C6_Witness ==
    /\ op.name = "CartProvider"
    /\ op.loaded = "envelope"
    /\ Len(items) = 2
    /\ promo = [code |-> JsStr(OCEAN10), discountRate |-> JsNum(1000)]

\* a store that holds the legacy items key and the legacy promo key only
LegacyOnly(store) ==
    /\ store[CART_STORAGE_KEY_V2] = AbsentText
    /\ store[CART_STORAGE_KEY_V1].k = "array"
    /\ store[PROMO_STORAGE_KEY_V1].k = "object"

\* the store that holds only a version-2 envelope with those items and promo
NativeStore(store) ==
    Store(EnvelopeText(JNum(2),
                       ItemsJ("array", store[CART_STORAGE_KEY_V1].elems),
                       PromoJ("object", store[PROMO_STORAGE_KEY_V1].code,
                              store[PROMO_STORAGE_KEY_V1].discountRate),
                       JNum(0)),
          AbsentText, AbsentText)

\* C7: migration equivalence: a load from a store that holds only the legacy
\* items key (an array X) and the legacy promo key (an object Y) returns the
\* same items and promo as a load from a store that holds only a version-2
\* envelope with items X and promo Y.
C7_LegacyLoadsAsNativeEnvelope ==
    [][(StepOf("CartProvider") /\ op'.rejectedReads = {} /\ LegacyOnly(storage))
          => /\ op'.loaded = "legacy"
             /\ TakesEnvelope(NativeStore(storage), {})
             /\ [items |-> items', promo |-> promo'] = loadCartState(NativeStore(storage), {})]_vars

\* a load from legacy keys alone that had lines to sanitize and a rate to clamp
C7_Witness ==
    /\ op.name = "CartProvider"
    /\ op.loaded = "legacy"
    /\ Len(items) = 2
    /\ promo = [code |-> JsStr(<<"B", "I", "G">>), discountRate |-> JsNum(5000)]

\* C8: with storage writes succeeding, after every cart operation and the
\* save it triggers, the text under the v2 key is an envelope of version 2
\* that holds exactly the items and promo in memory (as JSON.stringify writes
\* them), saved no later than now; it is also what the effect remembers as
\* last persisted.
C8_EnvelopeHoldsCurrentState ==
    Mounted =>
        LET envelope == storage[CART_STORAGE_KEY_V2]
        IN  /\ envelope.k = "object"
            /\ envelope.version = JNum(2)
            /\ envelope.items = ItemsJ("array", StringifyLines(items))
            /\ envelope.promo = PromoJ("object", StringifyScalar(promo.code),
                                       StringifyScalar(promo.discountRate))
            /\ envelope.savedAt.t = "number"
            /\ envelope.savedAt.n <= now
            /\ lastPersisted = envelope

\* a promo applied to a cart with lines and later time: the envelope was rewritten
C8_Witness ==
    /\ op.name = "applyPromo"
    /\ op.saved = "written"
    /\ now = 1
    /\ items # <<>>
    /\ promo = [code |-> JsStr(OCEAN10), discountRate |-> JsNum(1000)]
    /\ storage[CART_STORAGE_KEY_V2].savedAt = JNum(1)

\* what an operation makes of the cart in memory, storage left aside
CartOutcome(o, its, pr) ==
    CASE o.name = "addItem" ->
            [items |-> IF AcceptsItem(o.menuItem) THEN addItemUpdater(its, o.menuItem) ELSE its,
             promo |-> pr]
      [] o.name = "incrementItem" -> [items |-> incrementItemUpdater(its, o.itemId), promo |-> pr]
      [] o.name = "decrementItem" -> [items |-> decrementItemUpdater(its, o.itemId), promo |-> pr]
      [] o.name = "removeItem" -> [items |-> removeItemUpdater(its, o.itemId), promo |-> pr]
      [] o.name = "clearCart" -> [items |-> <<>>, promo |-> pr]
      [] o.name = "applyPromo" -> [items |-> its, promo |-> computePromoFromCode(o.codeRaw)]
      [] o.name = "clearPromo" -> [items |-> its, promo |-> NoPromo]

\* the store as a reader sees it when the reads of those keys are rejected
WithoutKeys(store, rejected) ==
    [key \in Keys |-> IF key \in rejected THEN AbsentText ELSE store[key]]

\* C9: when localStorage rejects a read or a write, no exception reaches the
\* caller; the items and promo in memory are what the operation makes of them
\* without the failure (a rejected read is a key with nothing under it); and
\* when the envelope write failed no key is written and the last persisted
\* payload is not updated.  Checked under SpecFaulty.
C9_RejectedStorageCallsDegrade ==
    [][/\ ~op'.threw
       /\ (op'.name \in CartOperations /\ now' = now)
            => [items |-> items', promo |-> promo'] = CartOutcome(op', items, promo)
       /\ StepOf("CartProvider")
            => [items |-> items', promo |-> promo']
                 = loadCartState(WithoutKeys(storage, op'.rejectedReads), {})
       /\ (op'.saved = "failed" /\ now' = now)
            => /\ CART_STORAGE_KEY_V2 \in op'.rejectedWrites
               /\ storage' = storage
               /\ lastPersisted' = IF op'.name = "CartProvider" THEN EmptyText
                                    ELSE lastPersisted]_vars

\* an addItem whose envelope write was rejected: the line is in memory, the
\* store still holds the cart of before
C9_Witness ==
    /\ op.name = "addItem"
    /\ op.saved = "failed"
    /\ op.rejectedWrites = {CART_STORAGE_KEY_V2}
    /\ items # <<>>
    /\ storage[CART_STORAGE_KEY_V2].items # ItemsJ("array", StringifyLines(items))

\* C10: addItem with a candidate whose id is that of a line of the cart
\* increases the quantity of that line by exactly 1 and changes nothing else
\* of it nor any other line, whatever name and price the candidate carries;
\* with no such line it appends one line of quantity 1 and leaves the
\* existing lines as they are.
C10_AddItemTouchesOneLine ==
    [][(StepOf("addItem") /\ AcceptsItem(op'.menuItem))
          => IF \E i \in DOMAIN items : items[i].itemId = op'.menuItem.id
             THEN /\ Len(items') = Len(items)
                  /\ \E i \in DOMAIN items :
                        /\ items[i].itemId = op'.menuItem.id
                        /\ items'[i] = [items[i] EXCEPT !.quantity = JsNum(@.n + 1)]
                        /\ \A j \in DOMAIN items : j # i => items'[j] = items[j]
             ELSE /\ Len(items') = Len(items) + 1
                  /\ SubSeq(items', 1, Len(items)) = items
                  /\ items'[Len(items')].itemId = op'.menuItem.id
                  /\ items'[Len(items')].quantity = JsNum(1)]_vars

\* a candidate that lacks a string identifier or a numeric price
Malformed(menuItem) ==
    ~ /\ menuItem.k = "object"
      /\ TypeOf(menuItem.id) = "string"
      /\ TypeOf(menuItem.price) = "number"

\* C11: addItem with a malformed candidate (no string identifier, or no
\* numeric price) has no observable effect: items, promo and the texts under
\* the cart keys are unchanged.
C11_MalformedCandidateIsNoOp ==
    [][(StepOf("addItem") /\ Malformed(op'.menuItem))
          => /\ items' = items
             /\ promo' = promo
             /\ storage' = storage]_vars

\* the lines decrementItem is specified to leave: a line of that id at
\* quantity 1 (or less) goes, one above 1 loses one, the others stay
RECURSIVE DecrementedLines(_, _)
DecrementedLines(its, itemId) ==
    IF its = <<>>
    THEN <<>>
    ELSE LET l == Head(its)
             rest == DecrementedLines(Tail(its), itemId)
         IN  IF l.itemId # itemId THEN <<l>> \o rest
             ELSE IF l.quantity.t = "number" /\ l.quantity.n > 1
             THEN <<[l EXCEPT !.quantity = JsNum(@.n - 1)]>> \o rest
             ELSE rest

\* C12: decrementItem(id) removes a line of that id whose quantity is 1,
\* leaves a line of quantity q > 1 with q - 1, leaves the cart as it is when
\* no line has that id, and in all cases leaves the lines of other ids
\* unchanged.
C12_DecrementItemLineByLine ==
    [][StepOf("decrementItem")
          => /\ items' = DecrementedLines(items, op'.itemId)
             /\ promo' = promo]_vars

\* the promo table of the specification, rates in 1/10000
TableRate(code) ==
    IF code = <<"O", "C", "E", "A", "N", "1", "0">> THEN 1000
    ELSE IF code = <<"S", "H", "I", "P", "F", "R", "E", "E">> THEN 600
    ELSE 0

\* str is raw without the spaces around it, in capitals
IsNormalized(str, raw) ==
    /\ str = <<>> \/ (str[1] # " " /\ str[Len(str)] # " ")
    /\ \A i \in DOMAIN str : \A j \in DOMAIN Lower : str[i] # Lower[j]
    /\ \E before, after \in 0..Len(raw) :
          /\ before + Len(str) + after = Len(raw)
          /\ \A i \in 1..before : raw[i] = " "
          /\ \A i \in 1..after : raw[Len(raw) + 1 - i] = " "
          /\ \A i \in DOMAIN str :
                \/ str[i] = raw[before + i]
                \/ \E j \in DOMAIN Lower : Lower[j] = raw[before + i] /\ Upper[j] = str[i]

\* C14: applyPromo(rawCode) replaces the promo with the resolution of the
\* trimmed, upper-cased code (OCEAN10: 0.10, SHIPFREE: 0.06, any other code:
\* rate 0 with the normalized code kept), whatever the promo was before, and
\* leaves the cart lines unchanged: " ocean10 " gives OCEAN10 at 0.10.
C14_ApplyPromoResolvesNormalizedCode ==
    [][StepOf("applyPromo")
          => /\ items' = items
             /\ promo'.code.t = "string"
             /\ IsNormalized(promo'.code.s, op'.codeRaw.s)
             /\ promo'.discountRate = JsNum(TableRate(promo'.code.s))
             /\ op'.codeRaw.s = <<" ", "o", "c", "e", "a", "n", "1", "0", " ">>
                  => promo' = [code |-> JsStr(<<"O", "C", "E", "A", "N", "1", "0">>),
                               discountRate |-> JsNum(1000)]
             /\ op'.codeRaw.s = <<"x">>
                  => promo' = [code |-> JsStr(<<"X">>), discountRate |-> JsNum(0)]]_vars

\* " ocean10 " applied to a cart with lines
C14_Witness ==
    /\ op.name = "applyPromo"
    /\ op.codeRaw = JsStr(<<" ", "o", "c", "e", "a", "n", "1", "0", " ">>)
    /\ promo.discountRate = JsNum(1000)
    /\ items # <<>>

\* the formulas of the pricing engine in whole millionths of a dollar, for a
\* subtotal sub and a discount rate in 1/10000
FormulaDiscount(sub, rate) == (sub * (rate \div 100)) \div 100
FormulaServiceFee(sub) ==
    IF sub = 0 THEN 0
    ELSE IF sub * 8 < 125000000 THEN 1250000
    ELSE IF sub * 8 > 350000000 THEN 3500000
    ELSE (sub * 8) \div 100
FormulaDeliveryFee(sub) == IF sub > 0 THEN 2990000 ELSE 0
FormulaTaxable(sub, rate) ==
    IF sub - FormulaDiscount(sub, rate) > 0 THEN sub - FormulaDiscount(sub, rate) ELSE 0
FormulaTax(sub, rate) == (FormulaTaxable(sub, rate) \div 10000) * 825
FormulaTotal(sub, rate) ==
    sub - FormulaDiscount(sub, rate) + FormulaServiceFee(sub) + FormulaDeliveryFee(sub)
        + FormulaTax(sub, rate)

\* the sum of quantity x unitPrice over lines of finite numbers, in millionths
RECURSIVE AmountTotal(_, _)
AmountTotal(its, k) ==
    IF k = 0 THEN 0
    ELSE its[k].quantity.n * its[k].unitPrice.n * 10000 + AmountTotal(its, k - 1)

FiniteLines(its) ==
    \A i \in DOMAIN its : its[i].quantity.t = "number" /\ its[i].unitPrice.t = "number"

\* C15: for every cart (of lines with finite quantities and prices) and
\* promo, the derived breakdown equals the formulas: subtotal = sum of
\* quantity x unitPrice, promoDiscount = subtotal x discountRate, serviceFee =
\* 0 when subtotal is 0 and otherwise subtotal x 0.08 clamped to [1.25, 3.50],
\* deliveryFee = 2.99 when subtotal > 0 and otherwise 0, tax = 0.0825 x
\* max(0, subtotal - promoDiscount), total = subtotal - promoDiscount +
\* serviceFee + deliveryFee + tax; one line of 2 x 10 with no promo gives
\* subtotal 20, serviceFee 1.6, deliveryFee 2.99, tax 1.65, total 26.24.
C15_BreakdownFollowsFormulas ==
    FiniteLines(items) =>
        LET sub == AmountTotal(items, Len(items))
            rate == promo.discountRate.n
        IN  /\ subtotal = JsNum(sub)
            /\ promoDiscount = JsNum(FormulaDiscount(sub, rate))
            /\ fees.serviceFee = JsNum(FormulaServiceFee(sub))
            /\ fees.deliveryFee = JsNum(FormulaDeliveryFee(sub))
            /\ fees.tax = JsNum(FormulaTax(sub, rate))
            /\ total = JsNum(FormulaTotal(sub, rate))
            /\ (Len(items) = 1 /\ items[1].unitPrice = JsNum(1000)
                   /\ items[1].quantity = JsNum(2) /\ rate = 0)
                 => /\ subtotal = JsNum(20000000)
                    /\ fees = [serviceFee |-> JsNum(1600000),
                                deliveryFee |-> JsNum(2990000), tax |-> JsNum(1650000)]
                    /\ total = JsNum(26240000)

\* the cart of one line of 2 x 10 dollars
TwoTens ==
    Len(items) = 1 /\ items[1].unitPrice = JsNum(1000) /\ items[1].quantity = JsNum(2)

\* C16, as stated: for the cart of one line with unitPrice 10 and quantity 2
\* and the promo OCEAN10, promoDiscount = 2.0, the taxable amount = 18,
\* tax = 1.485 and total = 23.575.
C16_Ocean10Example ==
    (TwoTens /\ promo.discountRate = JsNum(1000))
        => /\ promoDiscount = JsNum(2000000)
           /\ Taxable(subtotal, promoDiscount) = JsNum(18000000)
           /\ fees.tax = JsNum(1485000)
           /\ total = JsNum(23575000)

\* C16, amended: for that cart and promo, promoDiscount = 2.0, the taxable
\* amount = 18, tax = 1.485 (the tax is taken after the discount) and
\* total = 20 - 2 + 1.6 + 2.99 + 1.485 = 24.075.
C16_Ocean10ExampleAmended ==
    (TwoTens /\ promo.discountRate = JsNum(1000))
        => /\ subtotal = JsNum(20000000)
           /\ promoDiscount = JsNum(2000000)
           /\ Taxable(subtotal, promoDiscount) = JsNum(18000000)
           /\ fees = [serviceFee |-> JsNum(1600000), deliveryFee |-> JsNum(2990000),
                       tax |-> JsNum(1485000)]
           /\ total = JsNum(24075000)

C16_Witness ==
    /\ TwoTens
    /\ op.name = "applyPromo"
    /\ promo = [code |-> JsStr(OCEAN10), discountRate |-> JsNum(1000)]
    /\ total = JsNum(24075000)

\* C17: in every reachable state, states hydrated from any storage contents
\* included, every field of the derived breakdown (subtotal, promoDiscount,
\* serviceFee, deliveryFee, tax, total) is a non-negative number.
C17_BreakdownIsNonNegative ==
    \A v \in {subtotal, promoDiscount, fees.serviceFee, fees.deliveryFee, fees.tax, total} :
        JsLeq(JsNum(0), v)

\* the step is a placeOrder call that is accepted: the checkout is valid and
\* no call awaits
Accepted ==
    /\ StepOf("placeOrder")
    /\ canCheckout(items, op'.form)
    /\ placing.k = "none"

\* the step completes a checkout: an accepted call in demo mode, the settling
\* of the fetch of a call otherwise
Completed == (Accepted /\ apiBase = "") \/ StepOf("fetchSettles")

\* lines and pricing are those of the cart store in the state before the step
SnapshotOfCart(lines, pricing) ==
    /\ Len(lines) = Len(items)
    /\ \A i \in DOMAIN items :
          /\ lines[i].itemId = items[i].itemId
          /\ lines[i].name = items[i].name
          /\ lines[i].unitPrice = items[i].unitPrice
          /\ lines[i].quantity = items[i].quantity
    /\ pricing.subtotal = subtotal
    /\ pricing.promoCode = (IF promo.code = JsStr(<<>>) THEN JsNull ELSE promo.code)
    /\ pricing.promoDiscount = promoDiscount
    /\ pricing.serviceFee = fees.serviceFee
    /\ pricing.deliveryFee = fees.deliveryFee
    /\ pricing.tax = fees.tax
    /\ pricing.total = total

\* C18: a completed checkout installs an order with status Confirmed and
\* progress 3 of which the items and the pricing are the snapshot of the cart
\* lines and the priced totals taken when the checkout was accepted, and it
\* leaves the cart empty; a cart operation after it changes neither the items
\* nor the pricing of the order.
C18_CheckoutInstallsSnapshot ==
    [][/\ (Accepted /\ apiBase = "")
            => SnapshotOfCart(order'.items.elems, order'.pricing)
       /\ (Accepted /\ apiBase # "")
            => /\ placing'.k = "inFlight"
               /\ SnapshotOfCart(placing'.payload.items, placing'.payload.pricing)
       /\ StepOf("fetchSettles")
            => /\ order'.items.elems = placing.payload.items
               /\ order'.pricing = placing.payload.pricing
       /\ Completed
            => /\ order'.k = "object"
               /\ order'.status = JsStr(<<"Confirmed">>)
               /\ order'.progress = JsNum(3)
               /\ order'.items.k = "array"
               /\ items' = <<>>
       /\ (op'.name \in CartOperations /\ now' = now)
            => /\ order'.items = order.items
               /\ order'.pricing = order.pricing]_vars

\* an item was added to the cart left empty by a checkout, and the order
\* holds the line and the total of the checkout
C18_Witness ==
    /\ op.name = "addItem"
    /\ items # <<>>
    /\ order.k = "object"
    /\ order.status = JsStr(<<"Confirmed">>)
    /\ order.progress = JsNum(3)
    /\ Len(order.items.elems) = 1
    /\ order.items.elems[1].quantity = JsNum(1)
    /\ order.pricing.total = JsNum(15065000)

\* the transition function of the specification, on an elapsed time in
\* milliseconds
FormulaStatus(elapsed) ==
    IF elapsed < 30000 THEN JsStr(<<"Confirmed">>)
    ELSE IF elapsed < 75000 THEN JsStr(<<"Preparing">>)
    ELSE IF elapsed < 120000 THEN JsStr(<<"Out for delivery">>)
    ELSE JsStr(<<"Delivered">>)

\* clamp(round(elapsed / 120000 x 100), 0, 100): the percentage nearest to
\* elapsed / 1200, a half upward
FormulaProgress(elapsed) ==
    IF elapsed <= 0 THEN 0
    ELSE IF elapsed >= 120000 THEN 100
    ELSE CHOOSE p \in 0..100 :
            /\ p * 120000 - 60000 <= elapsed * 100
            /\ elapsed * 100 < p * 120000 + 60000

\* the order is there and its status is neither Delivered nor Cancelled
NonTerminal(o) ==
    /\ o.k # "null"
    /\ o.status \notin {JsStr(<<"Delivered">>), JsStr(<<"Cancelled">>)}

\* C19: after any timer tick on a non-terminal order, status and progress are
\* the transition function of elapsed = now - createdAt (Confirmed below
\* 30000 ms, Preparing below 75000, Out for delivery below 120000, Delivered
\* from 120000 on; progress = clamp(round(elapsed / 120000 x 100), 0, 100)):
\* an order created at t0 is Preparing after a tick at t0 + 31 s, and
\* Delivered with progress 100 after a tick at t0 + 121 s.
C19_TickFollowsTransitionFunction ==
    [][(StepOf("trackingTick") /\ NonTerminal(order))
          => /\ order'.createdAt.t = "number"
             /\ order'.status = FormulaStatus(now - order'.createdAt.n)
             /\ order'.progress = JsNum(FormulaProgress(now - order'.createdAt.n))
             /\ (now - order'.createdAt.n = 31000)
                    => order'.status = JsStr(<<"Preparing">>)
             /\ (now - order'.createdAt.n = 121000)
                    => /\ order'.status = JsStr(<<"Delivered">>)
                       /\ order'.progress = JsNum(100)]_vars

\* the active order is Delivered or Cancelled
Terminal(o) ==
    /\ o.k = "object"
    /\ o.status \in {JsStr(<<"Delivered">>), JsStr(<<"Cancelled">>)}

\* the steps taken by the user on the order: a checkout, startNewOrder, a
\* restart of the app
OrderCommands == {"placeOrder", "fetchSettles", "startNewOrder", "CartProvider"}

\* C20: Delivered and Cancelled are terminal: once the status of the active
\* order is Delivered or Cancelled (reached by ticks or restored from
\* storage), no interval runs for it, and no tick, no passing of time and no
\* cart operation changes its status or progress; no step sets the status to
\* Cancelled, which only comes restored from storage.
C20_TerminalIsFinal ==
    [][/\ Terminal(order) => ~timer
       /\ (Terminal(order) /\ op'.name \notin OrderCommands)
            => /\ order'.status = order.status
               /\ order'.progress = order.progress
       /\ (Terminal(order) /\ now' # now)
            => order' = order
       /\ (order'.status = JsStr(<<"Cancelled">>) /\ order.status # JsStr(<<"Cancelled">>))
            => /\ StepOf("CartProvider")
               /\ orderStorage.status = JStr(<<"Cancelled">>)]_vars

\* an order placed at 0 was Delivered by a tick at 121 s; after it an item
\* was added to the cart
C20_Witness ==
    /\ order.k = "object"
    /\ order.status = JsStr(<<"Delivered">>)
    /\ order.progress = JsNum(100)
    /\ order.createdAt = JsNum(0)
    /\ order.items.elems # <<>>
    /\ now = 121000
    /\ ~timer
    /\ op.name = "addItem"

\* a Cancelled order restored from storage, with time passed since
C20_WitnessCancelled ==
    /\ order.k = "object"
    /\ order.status = JsStr(<<"Cancelled">>)
    /\ order.progress = JsNum(40)
    /\ now = 121000
    /\ ~timer

\* C13: clearCart, called directly or by a completed checkout, empties items
\* and leaves the promo unchanged; the promo changes only through applyPromo
\* or clearPromo (and is hydrated at the first start), so that it survives
\* cart resets, checkouts and, the storage taking the writes, restarts.
C13_PromoChangesOnlyByPromoOperations ==
    [][/\ (StepOf("clearCart") \/ Completed)
            => /\ items' = <<>>
               /\ promo' = promo
       /\ (StepOf("CartProvider") /\ Mounted)
            => promo' = promo
       /\ promo' # promo
            => \/ op'.name \in {"applyPromo", "clearPromo"}
               \/ StepOf("CartProvider") /\ ~Mounted]_vars

\* the code applied before a checkout is still applied after the checkout and
\* a restart of the app
C13_Witness ==
    /\ op.name = "CartProvider"
    /\ promo = [code |-> JsStr(SHIPFREE), discountRate |-> JsNum(ShipFreeRate)]
    /\ items = <<>>
    /\ order.k = "object"
    /\ order.pricing.promoCode = JsStr(SHIPFREE)

\* every interval running was set for the order o
SetFor(ivs, o) == \A i \in DOMAIN ivs : ivs[i] = OrderIdentity(o)

C21_WitnessReplaced ==
    /\ op.name = "placeOrder"
    /\ order.k = "object"
    /\ order.status = JsStr(<<"Confirmed">>)
    /\ order.items.elems # <<>>
    /\ intervals = <<OrderIdentity(order)>>
    /\ timer

\* C22: once placeOrder has been accepted, an order with status Confirmed is
\* always eventually installed and the placing flag reset, whatever the remote
\* call does (be it absent, failing, or never answering), unless the page is
\* reloaded before.
C22_AcceptedCheckoutIsInstalled ==
    (placing.k = "inFlight")
        ~> /\ placing.k = "none"
           /\ \/ order.k = "object" /\ order.status = JsStr(<<"Confirmed">>)
              \/ op.name = "CartProvider"

\* an Order as placeOrder builds it: the id a string, the creation time a
\* number, one of the five statuses, a progress of 0..100, the lines, the
\* pricing
WellFormedOrder(o) ==
    /\ o.k = "object"
    /\ o.id.t = "string"
    /\ o.createdAt.t = "number"
    /\ o.status \in {Confirmed, Preparing, OutForDelivery, Delivered, Cancelled}
    /\ o.progress.t = "number" /\ o.progress.n \in 0..100
    /\ o.items.k = "array"
    /\ o.pricing.k = "object"

\* C23: whatever the last-order key holds (no text, text that does not parse,
\* a number, an object without items, pricing or createdAt), the start of the
\* app is not fatal (the tree is rendered) and the active order after it is
\* null or a well-formed Order.  Checked under SpecOrder.
C23_StartupInstallsNullOrWellFormed ==
    [][(op'.name \in {"CartProvider", "crashed"} /\ now' = now)
          => /\ op'.name # "crashed"
             /\ order' = NoOrder \/ WellFormedOrder(order')]_vars

\* C24: with the writes of the last-order key succeeding, in every state of
\* the running app (so after a creation, after a tick that changed status or
\* progress, after a clearing) the key holds the text of the whole current
\* order, null for none, and what a restart would read from it is that same
\* order, its id and createdAt included.  Checked under SpecOrder.
C24_LastOrderKeyHoldsCurrentOrder ==
    Mounted =>
        /\ orderStorage = StringifyOrder(order)
        /\ InitialOrder(orderStorage) = order

\* C25: in every state at most one tracking interval runs (and progressTimerRef
\* holds it exactly when it runs); one runs only while there is an order that
\* is neither Delivered nor Cancelled, so none is left once the order is
\* terminal or cleared; and the cleanup with no interval held changes
\* nothing.  Checked under SpecOrder.
C25_AtMostOneTimerAndOnlyWhileActive ==
    /\ Len(intervals) <= 1
    /\ timer <=> intervals # <<>>
    /\ intervals # <<>> => ~OrderFalsy(order) /\ NonTerminal(order)
    /\ (order = NoOrder \/ Terminal(order)) => intervals = <<>> /\ ~timer
    /\ TrackingCleanup(FALSE, intervals) = [ref |-> FALSE, intervals |-> intervals]

\* C25 witness: the tick at 121 s made the order of a checkout Delivered and
\* its interval is cleared
C25_Witness ==
    /\ op.name = "trackingTick"
    /\ order.status = JsStr(<<"Delivered">>)
    /\ order.id # JsUndefined
    /\ orderWritten
    /\ intervals = <<>>
    /\ ~timer

\* C25 witness: the one interval of a tracked order is running after a tick
C25_WitnessRunning ==
    /\ op.name = "trackingTick"
    /\ order.status = JsStr(<<"Preparing">>)
    /\ Len(intervals) = 1
    /\ timer

\* C26: a tick of which the recomputed status and progress are those the order
\* has emits no update (the order is the same, its effects do not run) and
\* writes nothing under the last-order key; a tick that changes the order
\* changes its status and progress only: id, createdAt, items, pricing and the
\* customer fields stay.  Checked under SpecOrder.
C26_UnchangedTickWritesNothing ==
    [][StepOf("trackingTick")
          => /\ (/\ TickStatus(order, now) = order.status
                 /\ TickProgress(order, now) = order.progress)
                    => /\ order' = order
                       /\ ~orderWritten'
                       /\ orderStorage' = orderStorage
                       /\ intervals' = intervals
             /\ OrderIdentity(order') = OrderIdentity(order)]_vars

\* C26 witness: a second tick at 31 s found Preparing and 26 % as they were and
\* wrote nothing
C26_Witness ==
    /\ op.name = "trackingTick"
    /\ ~orderWritten
    /\ order.status = JsStr(<<"Preparing">>)
    /\ order.progress = JsNum(26)
    /\ order.items.elems # <<>>
    /\ now = 31000
    /\ timer

\* C26 witness: a tick changed the order of a checkout, lines and pricing kept
C26_WitnessChanged ==
    /\ op.name = "trackingTick"
    /\ orderWritten
    /\ order.status = JsStr(<<"Out for delivery">>)
    /\ order.items.elems # <<>>
    /\ order.pricing.k = "object"

\* the last persisted payload a save compares with: "" in a process just
\* started
PriorPersisted == IF op'.name = "CartProvider" THEN EmptyText ELSE lastPersisted

\* C27: a save of which the serialized payload is the last payload persisted
\* writes none of the three cart keys (no write is attempted, the store is as
\* it was); and the last persisted payload changes only by a save of which the
\* envelope write succeeded, to the text then under the envelope key.
\* Checked under SpecFaulty.
C27_IdenticalPayloadIsNotWritten ==
    [][now' = now =>
          /\ (op'.saved # "none" /\ SerializePayload(items', promo', now) = PriorPersisted)
                => /\ op'.saved = "skipped"
                   /\ op'.rejectedWrites = {}
                   /\ storage' = storage
                   /\ lastPersisted' = PriorPersisted
          /\ lastPersisted' # PriorPersisted
                => /\ op'.saved = "written"
                   /\ CART_STORAGE_KEY_V2 \notin op'.rejectedWrites
                   /\ lastPersisted' = SerializePayload(items', promo', now)
                   /\ storage'[CART_STORAGE_KEY_V2] = lastPersisted']_vars

\* C27 witness: SHIPFREE applied again in the same millisecond; the save was
\* skipped
C27_Witness ==
    /\ op.name = "applyPromo"
    /\ op.saved = "skipped"
    /\ promo.code = JsStr(SHIPFREE)
    /\ lastPersisted = SerializePayload(items, promo, now)

\* C28: the first save of a process is never skipped: the start of the app
\* writes, and with the storage taking the writes the envelope key then holds
\* the version-2 envelope of the state loaded, saved at the time of the start,
\* also when that state came from the legacy keys only.  Checked under Spec.
C28_FreshProcessWrites ==
    [][StepOf("CartProvider")
          => /\ op'.saved = "written"
             /\ storage'[CART_STORAGE_KEY_V2] = SerializePayload(items', promo', now)
             /\ storage'[CART_STORAGE_KEY_V2].version = JNum(CART_STORAGE_VERSION)
             /\ lastPersisted' = storage'[CART_STORAGE_KEY_V2]
             /\ [items |-> items', promo |-> promo'] = loadCartState(storage, {})]_vars

\* C28 witness: a start from the legacy keys only, with a line and a code
\* loaded and the envelope written
C28_Witness ==
    /\ op.name = "CartProvider"
    /\ op.loaded = "legacy"
    /\ op.saved = "written"
    /\ items # <<>>
    /\ promo # NoPromo
    /\ storage[CART_STORAGE_KEY_V2] = SerializePayload(items, promo, now)

\* C28 witness: a restart in the millisecond of the last save writes again
C28_WitnessRestart ==
    /\ op.name = "CartProvider"
    /\ op.loaded = "envelope"
    /\ op.saved = "written"
    /\ now = MaxNow
    /\ items # <<>>

\* C29: a cart operation that leaves items and promo equal in value
\* (incrementItem or removeItem with an id not in the cart, applyPromo with
\* the code applied already) writes under no cart key: the store is as it
\* was, the savedAt of the envelope included.  Checked under Spec.
C29_ValueNoOpWritesNothing ==
    [][(op'.name \in CartOperations /\ now' = now /\ items' = items /\ promo' = promo)
          => /\ op'.saved \in {"none", "skipped"}
             /\ storage' = storage]_vars

\* C30: after a save of which the envelope write succeeded, the legacy items
\* key and the legacy promo key hold the items and the promo of the envelope
\* under the current-version key, also with a storage that rejects single
\* writes.  Checked under SpecFaulty.
C30_LegacyKeysFollowEnvelope ==
    [][(op'.saved = "written" /\ now' = now)
          => /\ storage'[CART_STORAGE_KEY_V2] = SerializePayload(items', promo', now)
             /\ storage'[CART_STORAGE_KEY_V1] = SerializeItems(items')
             /\ storage'[PROMO_STORAGE_KEY_V1] = SerializePromo(promo')]_vars

\* C31: over the life of an order, from the checkout that creates it through
\* its ticks (the clock never goes back), the progress never decreases.
\* Checked under SpecOrderLive.
C31_ProgressNeverDecreases ==
    [][StepOf("trackingTick")
          => /\ order'.progress.t = "number"
             /\ order'.progress.n >= order.progress.n]_vars

\* the place of a status in Confirmed < Preparing < Out for delivery <
\* Delivered; 0 for anything else
StatusRank(status) ==
    IF status = JsStr(<<"Confirmed">>) THEN 1
    ELSE IF status = JsStr(<<"Preparing">>) THEN 2
    ELSE IF status = JsStr(<<"Out for delivery">>) THEN 3
    ELSE IF status = JsStr(<<"Delivered">>) THEN 4
    ELSE 0

\* C32: over the life of an order (the clock never goes back) no tick replaces
\* its status by an earlier one of Confirmed < Preparing < Out for delivery <
\* Delivered.  Checked under SpecOrderLive.
C32_StatusNeverMovesBack ==
    [][StepOf("trackingTick")
          => /\ StatusRank(order'.status) >= StatusRank(order.status)
             /\ StatusRank(order'.status) >= 1]_vars

\* C32 witness: ticks took the order of a checkout to Out for delivery
C32_Witness ==
    /\ op.name = "trackingTick"
    /\ order.status = JsStr(<<"Out for delivery">>)
    /\ order.createdAt = JsNum(0)
    /\ now = 119400
    /\ timer

\* C33: in every state of an order created by a checkout and advanced by
\* ticks, the progress is 100 only when the status is Delivered.  Checked
\* under SpecOrderLive.
C33_FullProgressOnlyWhenDelivered ==
    (order.k = "object" /\ order.progress = JsNum(100))
        => order.status = JsStr(<<"Delivered">>)

\* the order is Delivered at 100 %
DeliveredInFull ==
    /\ order.k = "object"
    /\ order.status = JsStr(<<"Delivered">>)
    /\ order.progress = JsNum(100)

\* C34: with the clock advancing and the interval firing (fairly), an order
\* that is there and is neither cleared nor replaced (no checkout is awaiting
\* its answer) is eventually Delivered at progress 100; and the tracking
\* effect, run again after each change of the order, leaves no order short of
\* Delivered or Cancelled without its interval.  Checked under SpecOrderLive.
C34_OrderIsEventuallyDelivered ==
    /\ [](Mounted /\ ~OrderFalsy(order) /\ NonTerminal(order)
            => timer /\ Len(intervals) = 1)
    /\ (Mounted /\ ~OrderFalsy(order)) ~> (DeliveredInFull \/ placing.k = "inFlight")

\* C34 witness: the order made with the remote service was ticked to Delivered
C34_Witness ==
    /\ op.name = "trackingTick"
    /\ DeliveredInFull
    /\ order.id = RemoteId
    /\ apiBase # ""
    /\ intervals = <<>>

\* C35: when a checkout is completed and clears the cart, also after cart
\* operations made while the remote call was awaiting its answer, every line
\* then in the cart is in the items of the order created, with the same
\* quantity.  Checked under SpecOrder.
C35_NoLineDiscardedUnordered ==
    [][Completed
          => \A i \in DOMAIN items :
                \E j \in DOMAIN order'.items.elems :
                    /\ order'.items.elems[j].itemId = items[i].itemId
                    /\ order'.items.elems[j].quantity = items[i].quantity]_vars

\* C36: while a placeOrder call awaits its answer a further placeOrder does
\* nothing (no second call is put in flight, no order is installed, the first
\* call stays as it is); an accepted checkout puts one call in flight and its
\* settling installs one order and leaves none in flight; and placeOrder on an
\* empty cart, without a name, or with an address of 5 characters or fewer
\* installs no order.  Checked under SpecOrder.
C36_OneCheckoutAtATime ==
    [][/\ (StepOf("placeOrder") /\ placing.k = "inFlight")
            => /\ placing' = placing
               /\ order' = order
               /\ items' = items
               /\ ~orderWritten' \/ orderWritten
               /\ orderStorage' = orderStorage
       /\ (StepOf("placeOrder") /\ ~canCheckout(items, op'.form))
            => /\ order' = order
               /\ placing' = placing
               /\ orderStorage' = orderStorage
       /\ (StepOf("placeOrder") /\ Len(items) = 0) => order' = order
       /\ (StepOf("placeOrder") /\ op'.form \in {NamelessForm, ShortAddressForm})
            => order' = order
       /\ (Accepted /\ apiBase # "")
            => /\ placing'.k = "inFlight"
               /\ order' = order
       /\ StepOf("fetchSettles")
            => /\ placing.k = "inFlight"
               /\ placing'.k = "none"
               /\ order'.items.elems = placing.payload.items
               /\ order'.customerName = JsStr(placing.payload.customerName)
       /\ (placing'.k = "inFlight" /\ placing.k = "inFlight") => placing' = placing]_vars

\* C36 witness: a second placeOrder was called while the first awaits its
\* answer, with a line added to the cart in between
C36_Witness ==
    /\ op.name = "placeOrder"
    /\ placing.k = "inFlight"
    /\ Len(placing.payload.items) = 1
    /\ placing.payload.items[1].quantity = JsNum(1)
    /\ Len(items) = 1
    /\ items[1].quantity = JsNum(2)

\* C36 witness: placeOrder was called without a name and no order is there
C36_WitnessRefused ==
    /\ op.name = "placeOrder"
    /\ op.form = NamelessForm
    /\ items # <<>>
    /\ order = NoOrder
    /\ placing.k = "none"

====
